---------------------------- MODULE Spec2Model ----------------------------
(***************************************************************************)
(* Model of the agent invocation pipeline of adws/bun_modules:             *)
(*   - truncateOutput (utils.ts),                                          *)
(*   - the process wrapper claude-code-exec.sh,                            *)
(*   - parseJSONLOutput, convertJSONLToJSON, saveLastEntryAsRawResult,     *)
(*     executeClaudeCode and executeClaudeCodeWithRetry                    *)
(*     (claude-executor.ts).                                               *)
(*                                                                         *)
(* Texts are sequences of one-character strings.  The output file is a     *)
(* sequence of lines; a line is blank, malformed (JSON.parse throws) or    *)
(* holds a JSON value.                                                     *)
(***************************************************************************)
EXTENDS Integers, Sequences, FiniteSets, Bags, TLC

(***************************************************************************)
(* Bounds of the model.                                                    *)
(***************************************************************************)
\* largest maxRetries the caller passes
MaxRetriesBound == 2

(***************************************************************************)
(* Program constants.                                                      *)
(***************************************************************************)
\* error-codes.sh
EXIT_SUCCESS == 0
EXIT_CLAUDE_ERROR == 1
EXIT_INVALID_ARGS == 2
EXIT_TIMEOUT == 124
\* claude-executor.ts: `isError && resultText.length > 1000`
ErrorTruncateThreshold == 1000
\* claude-executor.ts: truncateOutput(..., 800)
ErrorTruncateLength == 800
\* utils.ts truncateOutput: newline / space lookback windows
NewlineLookback == 50
SpaceLookback == 20

(***************************************************************************)
(* Texts.                                                                  *)
(***************************************************************************)
TimeoutMessage == <<
    "E","r","r","o","r",":"," ","C","l","a","u","d","e"," ","C","o","d","e"," ","c","o",
    "m","m","a","n","d"," ","t","i","m","e","d"," ","o","u","t"," ","a","f","t","e","r",
    " ","5"," ","m","i","n","u","t","e","s" >>

ErrorDuringExecutionMessage == <<
    "E","r","r","o","r"," ","d","u","r","i","n","g"," ","e","x","e","c","u","t","i","o",
    "n",":"," ","A","g","e","n","t"," ","e","n","c","o","u","n","t","e","r","e","d"," ",
    "a","n"," ","e","r","r","o","r"," ","a","n","d"," ","d","i","d"," ","n","o","t"," ",
    "r","e","t","u","r","n"," ","a"," ","r","e","s","u","l","t" >>

FailedWithExitCodePrefix == <<
    "C","l","a","u","d","e"," ","C","o","d","e"," ","c","o","m","m","a","n","d"," ","f",
    "a","i","l","e","d"," ","w","i","t","h"," ","e","x","i","t"," ","c","o","d","e"," " >>

ClaudeCodeErrorPrefix == <<
    "C","l","a","u","d","e"," ","C","o","d","e"," ","e","r","r","o","r",":"," " >>

ErrorExecutingPrefix == <<
    "E","r","r","o","r"," ","e","x","e","c","u","t","i","n","g"," ","C","l","a","u","d",
    "e"," ","C","o","d","e",":"," " >>

DefaultSuffix == <<
    ".",".","."," ","(","t","r","u","n","c","a","t","e","d",")" >>

UndefinedText == <<
    "u","n","d","e","f","i","n","e","d" >>

TypePrefix == <<
    "{","\"","t","y","p","e","\"",":" >>

JsonlOutputWith == <<
    "[","J","S","O","N","L"," ","o","u","t","p","u","t"," ","w","i","t","h"," " >>

MessagesBracket == <<
    " ","m","e","s","s","a","g","e","s","]" >>

\* `${n}` for a non-negative integer
RECURSIVE DecimalText(_)
DecimalText(n) ==
    LET d == <<"0","1","2","3","4","5","6","7","8","9">>
    IN IF n < 10 THEN << d[n + 1] >>
       ELSE DecimalText(n \div 10) \o << d[(n % 10) + 1] >>

Whitespace == {" ", "\n", "\t"}

\* String.prototype.trim
RECURSIVE TrimStart(_)
TrimStart(s) ==
    IF s # << >> /\ Head(s) \in Whitespace THEN TrimStart(Tail(s)) ELSE s

RECURSIVE TrimEnd(_)
TrimEnd(s) ==
    IF s # << >> /\ s[Len(s)] \in Whitespace
    THEN TrimEnd(SubSeq(s, 1, Len(s) - 1)) ELSE s

Trim(s) == TrimEnd(TrimStart(s))

\* String.prototype.split("\n")
RECURSIVE SplitLines(_)
SplitLines(s) ==
    IF \E i \in 1..Len(s) : s[i] = "\n"
    THEN LET i == CHOOSE j \in 1..Len(s) :
                     s[j] = "\n" /\ \A k \in 1..(j - 1) : s[k] # "\n"
         IN << SubSeq(s, 1, i - 1) >> \o SplitLines(SubSeq(s, i + 1, Len(s)))
    ELSE << s >>

\* String.prototype.startsWith
StartsWith(s, p) == Len(s) >= Len(p) /\ SubSeq(s, 1, Len(p)) = p

\* String.prototype.includes
Includes(s, p) ==
    \E i \in 1..(Len(s) - Len(p) + 1) : SubSeq(s, i, i + Len(p) - 1) = p

\* String.prototype.lastIndexOf(ch, fromIndex) for a one-character ch:
\* 0-based index of the last occurrence at or before fromIndex, else -1;
\* a negative fromIndex is taken as 0.
LastIndexOf(s, ch, fromIndex) ==
    LET from == IF fromIndex < 0 THEN 0 ELSE fromIndex
        hits == { i \in 0..(Len(s) - 1) : i <= from /\ s[i + 1] = ch }
    IN IF hits = {} THEN -1
       ELSE CHOOSE i \in hits : \A j \in hits : j <= i

\* String.prototype.slice(0, end): a negative end counts from the end of s
Slice0(s, end) ==
    LET e == IF end < 0 THEN (IF Len(s) + end < 0 THEN 0 ELSE Len(s) + end)
             ELSE (IF end > Len(s) THEN Len(s) ELSE end)
    IN SubSeq(s, 1, e)

(***************************************************************************)
(* JSON values.  A parsed JSON value is null, a number, or an object with  *)
(* the fields the program reads; a field that is not there is "absent"     *)
(* (is_error, session_id, type, subtype) or has present = FALSE (texts).   *)
(***************************************************************************)
Absent == "absent"

NoText == [present |-> FALSE, text |-> << >>]

SomeText(s) == [present |-> TRUE, text |-> s]

JsonNull ==
    [kind |-> "null", type |-> Absent, subtype |-> Absent, is_error |-> Absent,
     result |-> NoText, session_id |-> Absent, message_text |-> NoText]

JsonNumber ==
    [kind |-> "number", type |-> Absent, subtype |-> Absent, is_error |-> Absent,
     result |-> NoText, session_id |-> Absent, message_text |-> NoText]

JsonObject(type, subtype, is_error, result, session_id, message_text) ==
    [kind |-> "object", type |-> type, subtype |-> subtype, is_error |-> is_error,
     result |-> result, session_id |-> session_id, message_text |-> message_text]

\* texts that are themselves serialized events (a raw stream handed on as text)
SystemLineText == <<
    "{","\"","t","y","p","e","\"",":","\"","s","y","s","t","e","m","\"","}" >>

ResultLineText == <<
    "{","\"","t","y","p","e","\"",":","\"","r","e","s","u","l","t","\"",",","\"","r",
    "e","s","u","l","t","\"",":","\"","o","k","\"","}" >>

AssistantLineText == <<
    "{","\"","t","y","p","e","\"",":","\"","a","s","s","i","s","t","a","n","t","\"",
    ",","\"","m","e","s","s","a","g","e","\"",":","{","\"","c","o","n","t","e","n",
    "t","\"",":","[","{","\"","t","e","x","t","\"",":","\"","h","i","\"","}","]","}",
    "}" >>

RawStreamText == SystemLineText \o << "\n" >> \o ResultLineText

RawStreamNoText == SystemLineText \o << "\n" >> \o SystemLineText

\* JSON.parse on a text: the value, or ok = FALSE where it throws SyntaxError
JSONParseText(line) ==
    IF Trim(line) = SystemLineText
    THEN [ok |-> TRUE,
          value |-> JsonObject("system", Absent, Absent, NoText, Absent, NoText)]
    ELSE IF Trim(line) = ResultLineText
    THEN [ok |-> TRUE,
          value |-> JsonObject("result", Absent, Absent, SomeText(<< "o", "k" >>),
                               Absent, NoText)]
    ELSE IF Trim(line) = AssistantLineText
    THEN [ok |-> TRUE,
          value |-> JsonObject("assistant", Absent, Absent, NoText, Absent,
                               SomeText(<< "h", "i" >>))]
    ELSE [ok |-> FALSE, value |-> JsonNull]

(***************************************************************************)
(* utils.ts: truncateOutput                                                *)
(***************************************************************************)
\* the text the JSONL branch extracts from lines[1..i], scanning from the end
RECURSIVE JsonlExtract(_, _)
JsonlExtract(lines, i) ==
    IF i = 0 THEN NoText
    ELSE LET line == lines[i]
             parsed == JSONParseText(line)
             data == parsed.value
         IN IF line = << >> THEN JsonlExtract(lines, i - 1)
            ELSE IF ~parsed.ok \/ data.kind = "null" THEN JsonlExtract(lines, i - 1)
            ELSE IF data.type = "result" /\ data.result.present THEN data.result
            ELSE IF data.type = "assistant" /\ data.message_text.present
                    /\ data.message_text.text # << >>
            THEN data.message_text
            ELSE JsonlExtract(lines, i - 1)

\* the space is looked for before the newline
TruncateAtBoundary_SpaceFirst(output, maxLength, suffix) ==
    LET truncateAt == maxLength - Len(suffix)
        newlinePos == LastIndexOf(output, "\n", truncateAt)
        spacePos == LastIndexOf(output, " ", truncateAt)
    IN IF spacePos > truncateAt - SpaceLookback /\ spacePos > 0
       THEN Slice0(output, spacePos) \o suffix
       ELSE IF newlinePos > truncateAt - NewlineLookback /\ newlinePos > 0
       THEN Slice0(output, newlinePos) \o suffix
       ELSE Slice0(output, truncateAt) \o suffix

\* the suffix is added and nothing is cut
TruncateAtBoundary_NoCut(output, maxLength, suffix) == output \o suffix

\* the "regular truncation logic" for a text longer than maxLength
TruncateAtBoundary(output, maxLength, suffix) ==
    LET truncateAt == maxLength - Len(suffix)
        newlinePos == LastIndexOf(output, "\n", truncateAt)
        spacePos == LastIndexOf(output, " ", truncateAt)
    IN IF newlinePos > truncateAt - NewlineLookback /\ newlinePos > 0
       THEN Slice0(output, newlinePos) \o suffix
       ELSE IF spacePos > truncateAt - SpaceLookback /\ spacePos > 0
       THEN Slice0(output, spacePos) \o suffix
       ELSE Slice0(output, truncateAt) \o suffix

RECURSIVE truncateOutput(_, _, _)
truncateOutput(output, maxLength, suffix) ==
    IF StartsWith(output, TypePrefix) /\ Includes(output, << "\n" >> \o TypePrefix)
    THEN LET lines == SplitLines(Trim(output))
             found == JsonlExtract(lines, Len(lines))
         IN IF found.present
            THEN truncateOutput(found.text, maxLength, suffix)
            ELSE JsonlOutputWith \o DecimalText(Len(lines)) \o MessagesBracket
                 \o suffix
    ELSE IF Len(output) <= maxLength THEN output
    ELSE TruncateAtBoundary(output, maxLength, suffix)

(***************************************************************************)
(* models.ts: RetryCode, AgentPromptResponse                               *)
(***************************************************************************)
RetryCode ==
    [NONE |-> "none",
     CLAUDE_CODE_ERROR |-> "claude_code_error",
     TIMEOUT_ERROR |-> "timeout_error",
     EXECUTION_ERROR |-> "execution_error",
     ERROR_DURING_EXECUTION |-> "error_during_execution"]

AgentPromptResponse(output, success, session_id, retry_code) ==
    [output |-> output, success |-> success, session_id |-> session_id,
     retry_code |-> retry_code]

\* no response (the call has not returned one)
NoResponse == AgentPromptResponse(<< >>, FALSE, Absent, "unset")

(***************************************************************************)
(* The output file and its lines.                                          *)
(***************************************************************************)
NoFile == [exists |-> FALSE, lines |-> << >>]

FileOf(lines) == [exists |-> TRUE, lines |-> lines]

BlankLine == [kind |-> "blank", value |-> JsonNull]

\* a line JSON.parse rejects: diagnostic text, a truncated event
BadLine == [kind |-> "bad", value |-> JsonNull]

JsonLine(v) == [kind |-> "json", value |-> v]

(***************************************************************************)
(* bash/claude-code-exec.sh                                                *)
(***************************************************************************)
StderrInvalidArgCount == <<
    "E","r","r","o","r",":"," ","I","n","v","a","l","i","d"," ","n","u","m","b","e",
    "r"," ","o","f"," ","a","r","g","u","m","e","n","t","s","\n","U","s","a","g","e",
    ":"," ","c","l","a","u","d","e","-","c","o","d","e","-","e","x","e","c",".","s",
    "h"," ","<","p","r","o","m","p","t",">"," ","<","m","o","d","e","l",">"," ","<",
    "o","u","t","p","u","t","_","f","i","l","e",">"," ","<","w","o","r","k","i","n",
    "g","_","d","i","r",">"," ","<","m","c","p","_","c","o","n","f","i","g","_","p",
    "a","t","h",">"," ","<","s","k","i","p","_","p","e","r","m","i","s","s","i","o",
    "n","s",">","\n" >>

StderrInvalidModel == <<
    "E","r","r","o","r",":"," ","M","o","d","e","l"," ","m","u","s","t"," ","b","e",
    " ","'","s","o","n","n","e","t","'"," ","o","r"," ","'","o","p","u","s","'",",",
    " ","g","o","t",":"," " >>

StderrNoWorkingDir == <<
    "E","r","r","o","r",":"," ","W","o","r","k","i","n","g"," ","d","i","r","e","c",
    "t","o","r","y"," ","d","o","e","s"," ","n","o","t"," ","e","x","i","s","t",":",
    " " >>

StderrNotFound == <<
    "E","r","r","o","r",":"," ","C","l","a","u","d","e"," ","C","o","d","e"," ","C",
    "L","I"," ","n","o","t"," ","f","o","u","n","d"," ","a","t",":"," " >>

StderrTimedOut == <<
    "E","r","r","o","r",":"," ","C","l","a","u","d","e"," ","C","o","d","e"," ","c",
    "o","m","m","a","n","d"," ","t","i","m","e","d"," ","o","u","t"," ","a","f","t",
    "e","r"," ","5"," ","m","i","n","u","t","e","s","\n" >>

StderrFailedPrefix == <<
    "E","r","r","o","r",":"," ","C","l","a","u","d","e"," ","C","o","d","e"," ","c",
    "o","m","m","a","n","d"," ","f","a","i","l","e","d"," ","w","i","t","h"," ","e",
    "x","i","t"," ","c","o","d","e"," " >>

\* the texts of $MODEL, $WORKING_DIR and $CLAUDE_PATH
ModelText(model) ==
    IF model = "sonnet" THEN << "s","o","n","n","e","t" >>
    ELSE IF model = "opus" THEN << "o","p","u","s" >>
    ELSE << "h","a","i","k","u" >>

WorkingDirText == << "/", "w" >>

ClaudePathText == << "c","l","a","u","d","e" >>

\* the agent's exit status as `timeout 300` reports it
AgentTimedOut == 124

\* One run of the wrapper.  nargs: number of positional arguments; model:
\* $2; dirExists: [[ -d $WORKING_DIR ]]; binaryFound: command -v; agentStatus
\* and agentOutput: what `timeout 300 claude ...` exits with and writes
\* (stdout and stderr together); file: the output file before the run.
claudeCodeExec(nargs, model, dirExists, binaryFound, agentStatus, agentOutput, file) ==
    IF nargs < 6
    THEN [exitCode |-> EXIT_INVALID_ARGS, stderr |-> StderrInvalidArgCount,
          file |-> file, spawned |-> FALSE]
    ELSE IF model # "sonnet" /\ model # "opus"
    THEN [exitCode |-> EXIT_INVALID_ARGS,
          stderr |-> StderrInvalidModel \o ModelText(model) \o << "\n" >>,
          file |-> file, spawned |-> FALSE]
    ELSE IF ~dirExists
    THEN [exitCode |-> EXIT_INVALID_ARGS,
          stderr |-> StderrNoWorkingDir \o WorkingDirText \o << "\n" >>,
          file |-> file, spawned |-> FALSE]
    ELSE IF ~binaryFound
    THEN [exitCode |-> EXIT_CLAUDE_ERROR,
          stderr |-> StderrNotFound \o ClaudePathText \o << "\n" >>,
          file |-> file, spawned |-> FALSE]
    ELSE IF agentStatus = 0
    THEN [exitCode |-> EXIT_SUCCESS, stderr |-> << >>,
          file |-> FileOf(agentOutput), spawned |-> TRUE]
    ELSE IF agentStatus = AgentTimedOut
    THEN [exitCode |-> EXIT_TIMEOUT, stderr |-> StderrTimedOut,
          file |-> FileOf(agentOutput), spawned |-> TRUE]
    ELSE [exitCode |-> EXIT_CLAUDE_ERROR,
          stderr |-> StderrFailedPrefix \o DecimalText(agentStatus) \o << "\n" >>,
          file |-> FileOf(agentOutput), spawned |-> TRUE]

(***************************************************************************)
(* claude-executor.ts: parseJSONLOutput                                    *)
(***************************************************************************)
NoResult == [found |-> FALSE, event |-> JsonNull]

EmptyParse == [threw |-> FALSE, messages |-> << >>, resultMessage |-> NoResult]

ThrownParse == [threw |-> TRUE, messages |-> << >>, resultMessage |-> NoResult]

\* lines.filter((line) => line.trim())
NonBlank(lines) == SelectSeq(lines, LAMBDA l : l.kind # "blank")

\* the loop run from the start: the first result event is kept
FindResult_FromStart(messages, i) ==
    LET results == { k \in 1..i : messages[k].kind = "object"
                                     /\ messages[k].type = "result" }
    IN IF results = {} THEN [threw |-> FALSE, resultMessage |-> NoResult]
       ELSE [threw |-> FALSE,
             resultMessage |->
                 [found |-> TRUE,
                  event |-> messages[CHOOSE k \in results :
                                         \A j \in results : k <= j]]]

\* the loop `for (i = messages.length - 1; i >= 0; i--)` from index i down:
\* reading .type of null throws
RECURSIVE FindResult(_, _)
FindResult(messages, i) ==
    IF i = 0 THEN [threw |-> FALSE, resultMessage |-> NoResult]
    ELSE IF messages[i].kind = "null"
    THEN [threw |-> TRUE, resultMessage |-> NoResult]
    ELSE IF messages[i].kind = "object" /\ messages[i].type = "result"
    THEN [threw |-> FALSE, resultMessage |-> [found |-> TRUE, event |-> messages[i]]]
    ELSE FindResult(messages, i - 1)

\* the body of the try block; readable: whether file.text() succeeds
ParseBody(file, readable) ==
    IF ~file.exists \/ ~readable THEN ThrownParse
    ELSE LET lines == NonBlank(file.lines)
         IN IF \E i \in 1..Len(lines) : lines[i].kind = "bad" THEN ThrownParse
            ELSE LET messages == [i \in 1..Len(lines) |-> lines[i].value]
                     scan == FindResult(messages, Len(messages))
                 IN IF scan.threw THEN ThrownParse
                    ELSE [threw |-> FALSE, messages |-> messages,
                          resultMessage |-> scan.resultMessage]

\* parseJSONLOutput without the try/catch
parseJSONLOutput_NoCatch(file, readable) == ParseBody(file, readable)

\* try { ... } catch (error) { return { messages: [], resultMessage: null } }
parseJSONLOutput(file, readable) ==
    LET body == ParseBody(file, readable)
    IN IF body.threw THEN EmptyParse ELSE body

(***************************************************************************)
(* claude-executor.ts: convertJSONLToJSON, saveLastEntryAsRawResult        *)
(***************************************************************************)
NoArray == [exists |-> FALSE, messages |-> << >>]

NoObject == [exists |-> FALSE, value |-> JsonNull]

\* writes the parsed messages to cc_raw_output.json; writable: whether
\* Bun.write succeeds.  Not guarded: a failed parse or write throws.
convertJSONLToJSON(file, readable, writable, jsonFile) ==
    LET parsed == parseJSONLOutput(file, readable)
    IN IF parsed.threw \/ ~writable
       THEN [threw |-> TRUE, jsonFile |-> jsonFile]
       ELSE [threw |-> FALSE,
             jsonFile |-> [exists |-> TRUE, messages |-> parsed.messages]]

\* try { ... } catch { return null }: cc_final_object.json after the call
saveLastEntryAsRawResult(jsonFile, writable, finalObject) ==
    IF ~jsonFile.exists \/ jsonFile.messages = << >> \/ ~writable
    THEN finalObject
    ELSE [exists |-> TRUE, value |-> jsonFile.messages[Len(jsonFile.messages)]]

(***************************************************************************)
(* claude-executor.ts: executeClaudeCode                                   *)
(***************************************************************************)
\* `${error}` for the errors the environment raises
SpawnErrorText == << "E","N","O","E","N","T" >>

WriteErrorText == << "E","N","O","S","P","C" >>

ParseErrorText == << "S","y","n","t","a","x","E","r","r","o","r" >>

\* resultMessage.result || ""
ResultText(event) == IF event.result.present THEN event.result.text ELSE << >>

\* `${resultMessage.result}`
ResultInterpolated(event) ==
    IF event.result.present THEN event.result.text ELSE UndefinedText

\* ResultResponse with `success: true` in place of `success: !isError`
ResultResponse_AlwaysSuccess(event) ==
    LET isError == (event.is_error = "true")
        subtype == IF event.subtype = Absent THEN "" ELSE event.subtype
        resultText == IF event.result.present THEN event.result.text ELSE << >>
        finalOutput == IF isError /\ Len(resultText) > ErrorTruncateThreshold
                       THEN truncateOutput(resultText, ErrorTruncateLength,
                                           DefaultSuffix)
                       ELSE resultText
    IN IF subtype = "error_during_execution"
       THEN AgentPromptResponse(ErrorDuringExecutionMessage, FALSE,
                                event.session_id,
                                RetryCode.ERROR_DURING_EXECUTION)
       ELSE AgentPromptResponse(finalOutput, TRUE, event.session_id,
                                RetryCode.NONE)

\* lines 75-101: exit code 0 and a result message
\* (isError: resultMessage.is_error || false)
\* ResultResponse without the error_during_execution case of lines 79-86
ResultResponse_NoSubtypeCheck(event) ==
    LET isError == (event.is_error = "true")
        resultText == ResultText(event)
        finalOutput == IF isError /\ Len(resultText) > ErrorTruncateThreshold
                       THEN truncateOutput(resultText, ErrorTruncateLength,
                                           DefaultSuffix)
                       ELSE resultText
    IN AgentPromptResponse(finalOutput, ~isError, event.session_id,
                           RetryCode.NONE)

ResultResponse(event) ==
    LET isError == (event.is_error = "true")
        subtype == IF event.subtype = Absent THEN "" ELSE event.subtype
        resultText == ResultText(event)
        finalOutput == IF isError /\ Len(resultText) > ErrorTruncateThreshold
                       THEN truncateOutput(resultText, ErrorTruncateLength,
                                           DefaultSuffix)
                       ELSE resultText
    IN IF subtype = "error_during_execution"
       THEN AgentPromptResponse(ErrorDuringExecutionMessage, FALSE,
                                event.session_id,
                                RetryCode.ERROR_DURING_EXECUTION)
       ELSE AgentPromptResponse(finalOutput, ~isError, event.session_id,
                                RetryCode.NONE)

\* TimeoutResponse with `success: true`
TimeoutResponse_Success ==
    AgentPromptResponse(TimeoutMessage, TRUE, Absent, RetryCode.TIMEOUT_ERROR)

\* lines 102-109: timeout
TimeoutResponse ==
    AgentPromptResponse(TimeoutMessage, FALSE, Absent, RetryCode.TIMEOUT_ERROR)

\* lines 110-126: other errors
ErrorResponse(exitCode, stderr, resultMessage) ==
    LET generic == IF stderr # << >> THEN stderr
                   ELSE FailedWithExitCodePrefix \o DecimalText(exitCode)
        errorMsg == IF resultMessage.found /\ resultMessage.event.is_error = "true"
                    THEN ClaudeCodeErrorPrefix
                         \o ResultInterpolated(resultMessage.event)
                    ELSE generic
    IN AgentPromptResponse(
           truncateOutput(errorMsg, ErrorTruncateLength, DefaultSuffix),
           FALSE,
           IF resultMessage.found THEN resultMessage.event.session_id ELSE Absent,
           RetryCode.CLAUDE_CODE_ERROR)

\* the timeout branch with `session_id: resultMessage?.session_id`
Classify_TimeoutKeepsSession(exitCode, stderr, resultMessage) ==
    IF exitCode = 0 /\ resultMessage.found
    THEN ResultResponse(resultMessage.event)
    ELSE IF exitCode = 124
    THEN [TimeoutResponse EXCEPT
             !.session_id = IF resultMessage.found
                            THEN resultMessage.event.session_id ELSE Absent]
    ELSE ErrorResponse(exitCode, stderr, resultMessage)

\* the branches of lines 74, 102 and 110
Classify(exitCode, stderr, resultMessage) ==
    IF exitCode = 0 /\ resultMessage.found
    THEN ResultResponse(resultMessage.event)
    ELSE IF exitCode = 124 THEN TimeoutResponse
    ELSE ErrorResponse(exitCode, stderr, resultMessage)

\* the catch block of lines 127-134
CaughtResponse(errorText) ==
    AgentPromptResponse(ErrorExecutingPrefix \o errorText, FALSE, Absent,
                        RetryCode.EXECUTION_ERROR)

\* One call.  request: the AgentPromptRequest; fs: the files before the call;
\* env: what the environment does during the call.  The result says whether
\* the call threw, the response, the files after the call and what the call
\* saw on the way: the step that raised an exception ("none", "placeholder",
\* "spawn", "parse", "convert"), the exit code, the parse.
executeClaudeCode(request, fs, env) ==
    LET untouched == [threw |-> FALSE, response |-> NoResponse, fs |-> fs,
                      raised |-> "none", spawned |-> FALSE, exitCode |-> -1,
                      parsed |-> EmptyParse, wrapperRan |-> FALSE,
                      stderr |-> << >>]
    IN IF ~env.placeholderWritable
       THEN [untouched EXCEPT !.threw = TRUE, !.raised = "placeholder"]
       ELSE IF ~env.spawnable
       THEN [untouched EXCEPT !.response = CaughtResponse(SpawnErrorText),
                              !.raised = "spawn"]
       ELSE
       LET run == claudeCodeExec(6, request.model, env.dirExists, env.binaryFound,
                                 env.agentStatus, env.agentOutput, fs.file)
           parsed == parseJSONLOutput(run.file, env.readable)
           converted == convertJSONLToJSON(run.file, env.readable,
                                           env.auditWritable, fs.jsonFile)
           finalObject == saveLastEntryAsRawResult(converted.jsonFile,
                                                   env.finalWritable,
                                                   fs.finalObject)
           seen == [untouched EXCEPT !.spawned = run.spawned,
                                     !.exitCode = run.exitCode,
                                     !.wrapperRan = TRUE,
                                     !.stderr = run.stderr,
                                     !.parsed = parsed,
                                     !.fs = [fs EXCEPT !.file = run.file]]
       IN IF parsed.threw
          THEN [seen EXCEPT !.response = CaughtResponse(ParseErrorText),
                            !.raised = "parse"]
          ELSE IF converted.threw
          THEN [seen EXCEPT !.response = CaughtResponse(WriteErrorText),
                            !.raised = "convert"]
          ELSE [seen EXCEPT !.response = Classify(run.exitCode, run.stderr,
                                                  parsed.resultMessage),
                            !.fs = [file |-> run.file,
                                    jsonFile |-> converted.jsonFile,
                                    finalObject |-> finalObject]]

(***************************************************************************)
(* Inputs of the model.                                                    *)
(***************************************************************************)
DoneText == << "D", "o", "n", "e" >>

FailText == << "f", "a", "i", "l" >>

\* a result text longer than the executor's truncation threshold
LongText ==
    [i \in 1..(ErrorTruncateThreshold + 1) |-> IF i % 7 = 0 THEN " " ELSE "x"]

SystemEvent == JsonObject("system", "init", Absent, NoText, "abc123", NoText)

AssistantEvent ==
    JsonObject("assistant", Absent, Absent, NoText, "abc123", SomeText(DoneText))

ResultEvent(subtype, is_error, text) ==
    JsonObject("result", subtype, is_error, SomeText(text), "abc123", NoText)

\* a result event of an earlier turn, with another session
OldResultEvent ==
    JsonObject("result", "success", "false", SomeText(FailText), "old999", NoText)

\* a result event with none of the optional fields
BareResultEvent == JsonObject("result", Absent, Absent, NoText, Absent, NoText)

Success == ResultEvent("success", "false", DoneText)

\* what the agent may leave in the output file
AgentOutputs ==
    { << >>,
      << JsonLine(SystemEvent) >>,
      << JsonLine(SystemEvent), JsonLine(AssistantEvent), JsonLine(Success) >>,
      << BadLine, JsonLine(Success) >>,
      << JsonLine(Success), BlankLine, BadLine >>,
      << JsonLine(OldResultEvent), JsonLine(Success) >>,
      << JsonLine(Success), JsonLine(JsonNull) >>,
      << JsonLine(JsonNumber), JsonLine(BareResultEvent) >>,
      << JsonLine(ResultEvent("error_max_turns", "true", FailText)) >>,
      << JsonLine(ResultEvent("error_during_execution", "false", DoneText)) >>,
      << BadLine, JsonLine(ResultEvent("error_during_execution", "false", DoneText)) >> }

\* outputs with a result text longer than the truncation threshold
LongOutputs ==
    { << JsonLine(ResultEvent("success", "false", LongText)) >>,
      << JsonLine(ResultEvent("error_max_turns", "true", LongText)) >> }

\* exit statuses of `timeout 300 claude ...`
AgentStatuses == {0, 1, AgentTimedOut}

\* pw: the .placeholder write succeeds; sp: Bun.spawn succeeds; de: the
\* working directory exists; bf: the claude binary is found; st, out: the
\* agent's exit status and output; rd: the output file can be read; aw, fw:
\* the writes of cc_raw_output.json and cc_final_object.json succeed
Env(pw, sp, de, bf, st, out, rd, aw, fw) ==
    [placeholderWritable |-> pw, spawnable |-> sp, dirExists |-> de,
     binaryFound |-> bf, agentStatus |-> st, agentOutput |-> out,
     readable |-> rd, auditWritable |-> aw, finalWritable |-> fw]

\* what the environment may do during one call: the agent runs and leaves
\* any output with any status, or one step of the call fails
Envs ==
    { Env(TRUE, TRUE, TRUE, TRUE, st, out, TRUE, TRUE, TRUE) :
          st \in AgentStatuses, out \in AgentOutputs }
    \cup { Env(TRUE, TRUE, TRUE, TRUE, 0, out, TRUE, TRUE, TRUE) :
          out \in LongOutputs }
    \cup { Env(FALSE, TRUE, TRUE, TRUE, 0, << >>, TRUE, TRUE, TRUE),
           Env(TRUE, FALSE, TRUE, TRUE, 0, << >>, TRUE, TRUE, TRUE),
           Env(TRUE, TRUE, FALSE, TRUE, 0, << >>, TRUE, TRUE, TRUE),
           Env(TRUE, TRUE, TRUE, FALSE, 0, << >>, TRUE, TRUE, TRUE),
           Env(TRUE, TRUE, TRUE, TRUE, 2, << >>, TRUE, TRUE, TRUE) }
    \cup { Env(TRUE, TRUE, TRUE, TRUE, st, << JsonLine(Success) >>, FALSE, TRUE, TRUE) :
          st \in {0, AgentTimedOut} }
    \cup { Env(TRUE, TRUE, TRUE, TRUE, st, << JsonLine(Success) >>, TRUE, FALSE, TRUE) :
          st \in {0, AgentTimedOut} }
    \cup { Env(TRUE, TRUE, TRUE, TRUE, 0, << JsonLine(Success) >>, TRUE, TRUE, FALSE) }

\* request.output_file
OutputFile ==
    << "c","c","_","r","a","w","_","o","u","t","p","u","t",".","j","s","o","n","l" >>

Requests == [model : {"sonnet", "haiku"}, output_file : {OutputFile}]

\* retryDelays arguments: the default, a short list, none
DelayLists == { << 1, 3, 5 >>, << 2 >>, << >> }

(***************************************************************************)
(* claude-executor.ts: executeClaudeCodeWithRetry                          *)
(***************************************************************************)
VARIABLES
    request,      \* the AgentPromptRequest of the call
    maxRetries,   \* argument maxRetries
    retryDelays,  \* argument retryDelays (extended in place)
    attempt,      \* loop variable
    pc,           \* "start", "execute", "check", "sleep", "done", "thrown"
    fs,           \* output file, cc_raw_output.json, cc_final_object.json
    last,         \* what the latest executeClaudeCode call did, and the
                  \* response it gives when the audit writes succeed
    returned,     \* the response the retry call returned
    calls,        \* number of executeClaudeCode calls made
    waits,        \* the delays slept, in order
    onlyAgentErrors, \* every response before the latest was a failure
                     \* with retry_code claude_code_error
    template,     \* what executeTemplate did before the retry call
    run,          \* a run of claude-code-exec.sh from the command line
    handed,       \* the environments Bun.spawn hands to the wrapper
    workflow,     \* a workflow process: its phase and what it has found
    monitor,      \* the task monitor and the workflows it has spawned
    truncated     \* an application of truncateOutput

vars == << request, maxRetries, retryDelays, attempt, pc, fs, last, returned,
           calls, waits, onlyAgentErrors, template, run, handed, workflow,
           monitor, truncated >>

\* NaN, as `undefined + 2` gives; no delay of the model is negative
NaN == 0 - 1

\* NextDelay with `+ 1` in place of `+ 2`
NextDelay_PlusOne(delays) ==
    IF delays = << >> THEN NaN
    ELSE IF delays[Len(delays)] = NaN THEN NaN
    ELSE delays[Len(delays)] + 1

\* retryDelays[retryDelays.length - 1] + 2
NextDelay(delays) ==
    IF delays = << >> THEN NaN
    ELSE IF delays[Len(delays)] = NaN THEN NaN
    ELSE delays[Len(delays)] + 2

\* while (retryDelays.length < maxRetries) retryDelays.push(...)
RECURSIVE ExtendDelays(_, _)
ExtendDelays(delays, n) ==
    IF Len(delays) < n THEN ExtendDelays(Append(delays, NextDelay(delays)), n)
    ELSE delays

\* retryableCodes without CLAUDE_CODE_ERROR
retryableCodes_NoAgentError ==
    { RetryCode.TIMEOUT_ERROR, RetryCode.EXECUTION_ERROR,
      RetryCode.ERROR_DURING_EXECUTION }

retryableCodes ==
    { RetryCode.CLAUDE_CODE_ERROR, RetryCode.TIMEOUT_ERROR,
      RetryCode.EXECUTION_ERROR, RetryCode.ERROR_DURING_EXECUTION }

\* executeTemplate has not been called
NoTemplate == [called |-> FALSE, prompt |-> << >>, raised |-> "none",
               saved |-> FALSE]

\* the wrapper has not been run from the command line
NoRun == [ran |-> FALSE]

\* nothing has been spawned
NoSpawn == [spawned |-> FALSE]

\* no workflow script has been started
NoWorkflow == [started |-> FALSE]

\* the monitor has not been started
NoMonitor == [started |-> FALSE]

\* truncateOutput has not been applied
NoTruncation == [applied |-> FALSE]

\* what the latest call did: nothing yet
NoCall ==
    [threw |-> FALSE, response |-> NoResponse, raised |-> "none",
     spawned |-> FALSE, exitCode |-> -1, parsed |-> EmptyParse,
     wrapperRan |-> FALSE, readable |-> TRUE, helpersFailed |-> FALSE,
     unfailed |-> NoResponse, output_file |-> << >>, stderr |-> << >>]

Init ==
    /\ request \in Requests
    /\ maxRetries \in 0..MaxRetriesBound
    /\ retryDelays \in DelayLists
    /\ attempt = 0
    /\ pc = "start"
    /\ fs = [file |-> NoFile, jsonFile |-> NoArray, finalObject |-> NoObject]
    /\ last = NoCall
    /\ returned = NoResponse
    /\ calls = 0
    /\ waits = << >>
    /\ onlyAgentErrors = TRUE
    /\ template = NoTemplate
    /\ run = NoRun
    /\ handed = NoSpawn
    /\ workflow = NoWorkflow
    /\ monitor = NoMonitor
    /\ truncated = NoTruncation

\* lines 150-155: extend the delays, enter the loop
Start ==
    /\ pc = "start"
    /\ retryDelays' = ExtendDelays(retryDelays, maxRetries)
    /\ attempt' = 0
    /\ pc' = IF 0 <= maxRetries THEN "execute" ELSE "thrown"
    /\ UNCHANGED << request, maxRetries, fs, last, returned, calls, waits,
                    onlyAgentErrors, template, run, handed,
                    workflow, monitor, truncated >>

\* lines 156-160: the backoff before a retry
Sleep ==
    /\ pc = "sleep"
    /\ waits' = Append(waits, retryDelays[attempt])
    /\ pc' = "execute"
    /\ UNCHANGED << request, maxRetries, retryDelays, attempt, fs, last,
                    returned, calls, onlyAgentErrors, template, run, handed,
                    workflow, monitor, truncated >>

\* what one executeClaudeCode call in one of the environments envs does to
\* the state of the retry call
Call(envs) ==
    /\ \E env \in envs :
          LET call == executeClaudeCode(request, fs, env)
              \* the same call when both audit writes succeed
              sound == executeClaudeCode(request, fs,
                           [env EXCEPT !.auditWritable = TRUE,
                                       !.finalWritable = TRUE])
          IN /\ last' = [threw |-> call.threw, response |-> call.response,
                         raised |-> call.raised, spawned |-> call.spawned,
                         exitCode |-> call.exitCode, parsed |-> call.parsed,
                         wrapperRan |-> call.wrapperRan,
                         readable |-> env.readable,
                         helpersFailed |-> ~env.auditWritable
                                              \/ ~env.finalWritable,
                         unfailed |-> sound.response,
                         output_file |-> request.output_file,
                         stderr |-> call.stderr]
             /\ fs' = call.fs
             /\ calls' = calls + 1
             /\ onlyAgentErrors' =
                    /\ onlyAgentErrors
                    /\ calls > 0 =>
                           /\ ~last.response.success
                           /\ last.response.retry_code = RetryCode.CLAUDE_CODE_ERROR
             /\ pc' = IF call.threw THEN "thrown" ELSE "check"
    /\ UNCHANGED << request, maxRetries, retryDelays, attempt, returned, waits >>

\* line 162: one executeClaudeCode call, in one of the environments envs
ExecuteIn(envs) ==
    /\ pc = "execute"
    /\ Call(envs)
    /\ UNCHANGED << template, run, handed, workflow, monitor, truncated >>

Execute == ExecuteIn(Envs)

\* ShouldReturn with `attempt + 1 < maxRetries` in place of line 181
ShouldReturn_GivesUpEarly(response, att, max) ==
    \/ response.success
    \/ response.retry_code = RetryCode.NONE
    \/ response.retry_code \notin retryableCodes
    \/ ~(att + 1 < max)

\* ShouldReturn without the tests of lines 165 and 177 for retry_code none
ShouldReturn_RetriesNone(response, att, max) ==
    \/ response.success
    \/ ~(att < max)

\* ShouldReturn without the else branch of lines 183-185
ShouldReturn_NeverGivesUp(response, att, max) ==
    \/ response.success
    \/ response.retry_code = RetryCode.NONE
    \/ response.retry_code \notin retryableCodes

\* lines 164-186: return the response or go round the loop
ShouldReturn(response, att, max) ==
    \/ response.success
    \/ response.retry_code = RetryCode.NONE
    \/ response.retry_code \notin retryableCodes
    \/ ~(att < max)

Check ==
    /\ pc = "check"
    /\ IF ShouldReturn(last.response, attempt, maxRetries)
       THEN /\ returned' = last.response
            /\ pc' = "done"
            /\ UNCHANGED attempt
       ELSE /\ attempt' = attempt + 1
            /\ pc' = IF attempt + 1 <= maxRetries THEN "sleep" ELSE "thrown"
            /\ UNCHANGED returned
    /\ UNCHANGED << request, maxRetries, retryDelays, fs, last, calls, waits,
                    onlyAgentErrors, template, run, handed,
                    workflow, monitor, truncated >>

Next == Start \/ Sleep \/ Execute \/ Check

Spec == Init /\ [][Next]_vars

\* environments giving each kind of outcome of a call once: success, a
\* failure with each of the five retry codes, an exception
OutcomeEnvs ==
    { Env(TRUE, TRUE, TRUE, TRUE, 0,
          << JsonLine(SystemEvent), JsonLine(AssistantEvent), JsonLine(Success) >>,
          TRUE, TRUE, TRUE),
      Env(TRUE, TRUE, TRUE, TRUE, 0,
          << JsonLine(ResultEvent("error_max_turns", "true", FailText)) >>,
          TRUE, TRUE, TRUE),
      Env(TRUE, TRUE, TRUE, TRUE, 0,
          << JsonLine(ResultEvent("error_during_execution", "false", DoneText)) >>,
          TRUE, TRUE, TRUE),
      Env(TRUE, TRUE, TRUE, TRUE, AgentTimedOut, << >>, TRUE, TRUE, TRUE),
      Env(TRUE, TRUE, TRUE, TRUE, 1, << >>, TRUE, TRUE, TRUE),
      Env(TRUE, FALSE, TRUE, TRUE, 0, << >>, TRUE, TRUE, TRUE),
      Env(FALSE, TRUE, TRUE, TRUE, 0, << >>, TRUE, TRUE, TRUE) }

ExecuteOutcome == ExecuteIn(OutcomeEnvs)

\* the retry call over the outcomes of a call alone
NextOutcome == Start \/ Sleep \/ ExecuteOutcome \/ Check

\* the retry call is one sequential async function: while a step is possible
\* (the awaited sleep or executor call having settled) it is taken
FairSpec == Init /\ [][NextOutcome]_vars /\ WF_vars(NextOutcome)

(***************************************************************************)
(* claude-executor.ts: executeTemplate, savePrompt                         *)
(***************************************************************************)
DefaultMaxRetries == 3

DefaultRetryDelays == << 1, 3, 5 >>

\* the characters \w matches
WordChars ==
    { "a","b","c","d","e","f","g","h","i","j","k","l","m","n","o","p","q","r",
      "s","t","u","v","w","x","y","z","A","B","C","D","E","F","G","H","I","J",
      "K","L","M","N","O","P","Q","R","S","T","U","V","W","X","Y","Z","0","1",
      "2","3","4","5","6","7","8","9","_" }

\* args.join(" ")
RECURSIVE JoinArgs(_)
JoinArgs(args) ==
    IF args = << >> THEN << >>
    ELSE IF Len(args) = 1 THEN args[1]
    ELSE args[1] \o << " " >> \o JoinArgs(Tail(args))

\* `${request.slash_command} ${request.args.join(" ")}`.trim()
TemplatePrompt(slash_command, args) ==
    Trim(slash_command \o << " " >> \o JoinArgs(args))

\* prompt.match(/^(\/\w+)/)
MatchesSlashCommand(prompt) ==
    Len(prompt) >= 2 /\ prompt[1] = "/" /\ prompt[2] \in WordChars

\* dirWritable, fileWritable: whether the writes of prompts/.placeholder and
\* of prompts/<command>.txt succeed.  Neither write is guarded.
savePrompt(prompt, dirWritable, fileWritable) ==
    IF ~MatchesSlashCommand(prompt)
    THEN [threw |-> FALSE, raised |-> "none", saved |-> FALSE]
    ELSE IF ~dirWritable
    THEN [threw |-> TRUE, raised |-> "promptDir", saved |-> FALSE]
    ELSE IF ~fileWritable
    THEN [threw |-> TRUE, raised |-> "promptFile", saved |-> FALSE]
    ELSE [threw |-> FALSE, raised |-> "none", saved |-> TRUE]

SlashCommands == { << "/","b","u","i","l","d" >>, << "b","u","i","l","d" >> }

ArgLists == { << >>, << << "4","2" >> >> }

\* executeTemplate is called
InitTemplate ==
    /\ request \in Requests
    /\ maxRetries = DefaultMaxRetries
    /\ retryDelays = DefaultRetryDelays
    /\ attempt = 0
    /\ pc = "template"
    /\ fs = [file |-> NoFile, jsonFile |-> NoArray, finalObject |-> NoObject]
    /\ last = NoCall
    /\ returned = NoResponse
    /\ calls = 0
    /\ waits = << >>
    /\ onlyAgentErrors = TRUE
    /\ template = NoTemplate
    /\ run = NoRun
    /\ handed = NoSpawn
    /\ workflow = NoWorkflow
    /\ monitor = NoMonitor
    /\ truncated = NoTruncation

\* lines 201-227: the output directory, the prompt file, then the retry call
\* with its default maxRetries and retryDelays
ExecuteTemplate ==
    /\ pc = "template"
    /\ \E slash_command \in SlashCommands, args \in ArgLists,
          outputDirWritable \in BOOLEAN, dirWritable \in BOOLEAN,
          fileWritable \in BOOLEAN :
          LET prompt == TemplatePrompt(slash_command, args)
              save == savePrompt(prompt, dirWritable, fileWritable)
          IN IF ~outputDirWritable
             THEN /\ template' = [called |-> TRUE, prompt |-> prompt,
                                  raised |-> "outputDir", saved |-> FALSE]
                  /\ pc' = "thrown"
             ELSE /\ template' = [called |-> TRUE, prompt |-> prompt,
                                  raised |-> save.raised, saved |-> save.saved]
                  /\ pc' = IF save.threw THEN "thrown" ELSE "start"
    /\ UNCHANGED << request, maxRetries, retryDelays, attempt, fs, last,
                    returned, calls, waits, onlyAgentErrors, run, handed,
                    workflow, monitor, truncated >>

NextTemplate == ExecuteTemplate \/ Start \/ Sleep \/ Execute \/ Check

TemplateSpec == InitTemplate /\ [][NextTemplate]_vars

(***************************************************************************)
(* claude-code-exec.sh run from the command line                           *)
(***************************************************************************)
\* exit status of `timeout 300 cmd`: 124 when the limit expired, else the
\* exit status of cmd
timeout(expired, status) == IF expired THEN AgentTimedOut ELSE status

\* number of positional arguments
ArgCounts == {5, 6, 7}

Models == {"sonnet", "opus", "haiku"}

\* exit statuses of the claude binary
AgentExitStatuses == {0, 1, 2, AgentTimedOut}

RunOutputs == { << >>, << JsonLine(Success) >> }

InitWrapper ==
    /\ request \in Requests
    /\ maxRetries = 0
    /\ retryDelays = << >>
    /\ attempt = 0
    /\ pc = "wrapper"
    /\ fs = [file |-> NoFile, jsonFile |-> NoArray, finalObject |-> NoObject]
    /\ last = NoCall
    /\ returned = NoResponse
    /\ calls = 0
    /\ waits = << >>
    /\ onlyAgentErrors = TRUE
    /\ template = NoTemplate
    /\ run = NoRun
    /\ handed = NoSpawn
    /\ workflow = NoWorkflow
    /\ monitor = NoMonitor
    /\ truncated = NoTruncation

\* one run of the script: its arguments, what it finds, what the agent does
RunWrapper ==
    /\ pc = "wrapper"
    /\ \E nargs \in ArgCounts, model \in Models, dirExists \in BOOLEAN,
          binaryFound \in BOOLEAN, expired \in BOOLEAN,
          status \in AgentExitStatuses, output \in RunOutputs :
          LET exec == claudeCodeExec(nargs, model, dirExists, binaryFound,
                                     timeout(expired, status), output, fs.file)
          IN /\ run' = [ran |-> TRUE, nargs |-> nargs, model |-> model,
                        dirExists |-> dirExists, binaryFound |-> binaryFound,
                        expired |-> expired, status |-> status,
                        exitCode |-> exec.exitCode, stderr |-> exec.stderr,
                        spawned |-> exec.spawned]
             /\ fs' = [fs EXCEPT !.file = exec.file]
    /\ pc' = "exited"
    /\ UNCHANGED << request, maxRetries, retryDelays, attempt, last, returned,
                    calls, waits, onlyAgentErrors, template, handed,
                    workflow, monitor, truncated >>

NextWrapper == RunWrapper

WrapperSpec == InitWrapper /\ [][NextWrapper]_vars

(***************************************************************************)
(* The environment of the subprocess: utils.ts getSafeSubprocessEnv and    *)
(* the Bun.spawn call of executeClaudeCode                                 *)
(***************************************************************************)
\* the names getSafeSubprocessEnv copies from process.env
AllowList ==
    { "ANTHROPIC_API_KEY", "GITHUB_PAT", "CLAUDE_CODE_PATH",
      "CLAUDE_BASH_MAINTAIN_PROJECT_WORKING_DIR", "E2B_API_KEY",
      "CLOUDFLARED_TUNNEL_TOKEN", "HOME", "USER", "PATH", "SHELL", "TERM",
      "LANG", "LC_ALL", "PYTHONPATH" }

\* the variables of the model: three of the allow-list, one outside it
EnvVars ==
    { "ANTHROPIC_API_KEY", "GITHUB_PAT", "CLAUDE_CODE_PATH", "DATABASE_URL" }

\* a variable is unset or has one of two values
EnvValues == { Absent, "v1", "v2" }

\* process.env of the calling process
AmbientEnvs == [EnvVars -> EnvValues]

\* getSafeSubprocessEnv() under process.env = env, over the variables of the
\* model and the ones it adds; Absent: filtered out as undefined
getSafeSubprocessEnv(env) ==
    [name \in (EnvVars \cap AllowList) \cup {"GH_TOKEN", "PYTHONUNBUFFERED"} |->
        CASE name = "CLAUDE_CODE_PATH" ->
                 IF env[name] = Absent THEN "claude" ELSE env[name]
          [] name = "GH_TOKEN" -> env["GITHUB_PAT"]
          [] name = "PYTHONUNBUFFERED" -> "1"
          [] OTHER -> env[name]]

\* the environment of the child of Bun.spawn([bashScript, ...args], {stdout,
\* stderr, stdin, cwd}): no env option is given, the child inherits
\* process.env
SpawnEnv(env) == env

InitEnv ==
    /\ request \in Requests
    /\ maxRetries = 0
    /\ retryDelays = << >>
    /\ attempt = 0
    /\ pc = "spawn"
    /\ fs = [file |-> NoFile, jsonFile |-> NoArray, finalObject |-> NoObject]
    /\ last = NoCall
    /\ returned = NoResponse
    /\ calls = 0
    /\ waits = << >>
    /\ onlyAgentErrors = TRUE
    /\ template = NoTemplate
    /\ run = NoRun
    /\ handed = NoSpawn
    /\ workflow = NoWorkflow
    /\ monitor = NoMonitor
    /\ truncated = NoTruncation

\* the same call made under two ambient environments
SpawnTwice ==
    /\ pc = "spawn"
    /\ \E env1 \in AmbientEnvs, env2 \in AmbientEnvs :
          handed' = [spawned |-> TRUE,
                     ambient |-> << env1, env2 >>,
                     env |-> << SpawnEnv(env1), SpawnEnv(env2) >>,
                     safe |-> << getSafeSubprocessEnv(env1),
                                 getSafeSubprocessEnv(env2) >>]
    /\ pc' = "spawned"
    /\ UNCHANGED << request, maxRetries, retryDelays, attempt, fs, last,
                    returned, calls, waits, onlyAgentErrors, template, run,
                    workflow, monitor, truncated >>

NextEnv == SpawnTwice

EnvSpec == InitEnv /\ [][NextEnv]_vars

(***************************************************************************)
(* The workflow scripts (build then update; plan, implement then update):  *)
(* one process that awaits one executeTemplate call per phase.  The        *)
(* executor's call is split at its await of the wrapper's exit, so that    *)
(* the wrapper subprocess in flight is part of the state.                  *)
(***************************************************************************)
WorkflowKinds == { "build-update", "plan-implement-update" }

\* a result text whose last line names a plan file
PlanText == << "s","p","e","c","s","/","p",".","m","d" >>

SpecsDir == << "s","p","e","c","s","/" >>

PlanDash == << "p","l","a","n","-" >>

\* the outcomes of a call in a workflow: those of OutcomeEnvs, and a plan
WorkflowEnvs ==
    OutcomeEnvs
    \cup { Env(TRUE, TRUE, TRUE, TRUE, 0,
               << JsonLine(ResultEvent("success", "false", PlanText)) >>,
               TRUE, TRUE, TRUE) }

\* the calls among envs in which Bun.spawn launches the wrapper
Spawned(envs) == { env \in envs : env.placeholderWritable /\ env.spawnable }

\* the calls among envs that fail before a wrapper is launched
Unspawned(envs) == envs \ Spawned(envs)

\* const lines = output.trim().split("\n"); lines[lines.length - 1];
\* the plan path is that line when it includes "specs/" or "plan-"
PlanPathOf(output) ==
    LET lines == SplitLines(Trim(output))
        lastLine == lines[Len(lines)]
    IN IF lastLine # << >>
          /\ (Includes(lastLine, SpecsDir) \/ Includes(lastLine, PlanDash))
       THEN SomeText(Trim(lastLine))
       ELSE NoText

\* the first phase after the worktree is there
FirstPhase(kind) == IF kind = "build-update" THEN "build" ELSE "plan"

\* the awaited executeTemplate call has settled: it returned or it threw
Settled_NotAwaited == TRUE

Settled == pc \in { "done", "thrown" }

\* how the awaited call settled
Outcome ==
    IF pc = "thrown" THEN "threw"
    ELSE IF returned.success THEN "success" ELSE "failure"

\* the phase the script goes to when phase has settled with outcome; success
\* and planPath are the script's variables after the phase's own block.  A
\* phase that is not the worktree's initialisation sits in a try block.
NextPhase_NoCatch(kind, phase, outcome, success, planPath) ==
    IF outcome = "threw" THEN "crashed"
    ELSE CASE phase = "init" ->
                  IF outcome = "success" THEN FirstPhase(kind) ELSE "exited"
           [] phase = "build" -> "update"
           [] phase = "plan" ->
                  IF success /\ planPath THEN "implement" ELSE "update"
           [] phase = "implement" -> "update"
           [] phase = "update" -> "summary"

\* if (workflowSuccess): /implement follows any successful planning
NextPhase_NoPlanPath(kind, phase, outcome, success, planPath) ==
    CASE phase = "init" ->
             IF outcome = "success" THEN FirstPhase(kind)
             ELSE IF outcome = "failure" THEN "exited" ELSE "crashed"
      [] phase = "build" -> "update"
      [] phase = "plan" ->
             IF outcome = "success" THEN "implement" ELSE "update"
      [] phase = "implement" -> "update"
      [] phase = "update" -> "summary"

NextPhase(kind, phase, outcome, success, planPath) ==
    CASE phase = "init" ->
             IF outcome = "success" THEN FirstPhase(kind)
             ELSE IF outcome = "failure" THEN "exited" ELSE "crashed"
      [] phase = "build" -> "update"
      [] phase = "plan" ->
             IF success /\ planPath THEN "implement" ELSE "update"
      [] phase = "implement" -> "update"
      [] phase = "update" -> "summary"

\* const updateStatus = workflowSuccess && commitHash ? "Done" : "Failed";
\* ("Complete" and "Blocked" in the Teamwork scripts)
UpdateStatus(workflowSuccess, commitHash) ==
    IF workflowSuccess /\ commitHash THEN "Done" ELSE "Failed"

\* the script starts: arguments parsed, names and paths computed
InitWorkflow ==
    /\ request \in Requests
    /\ maxRetries = DefaultMaxRetries
    /\ retryDelays = DefaultRetryDelays
    /\ attempt = 0
    /\ pc = "idle"
    /\ fs = [file |-> NoFile, jsonFile |-> NoArray, finalObject |-> NoObject]
    /\ last = NoCall
    /\ returned = NoResponse
    /\ calls = 0
    /\ waits = << >>
    /\ onlyAgentErrors = TRUE
    /\ template = NoTemplate
    /\ run = NoRun
    /\ handed = NoSpawn
    /\ \E kind \in WorkflowKinds :
          workflow = [started |-> TRUE, kind |-> kind, at |-> "worktree",
                      phase |-> "none", next |-> "none", invoked |-> << >>,
                      outcomes |-> << >>, inFlight |-> 0,
                      workflowSuccess |-> TRUE, commitHash |-> FALSE,
                      planPath |-> FALSE, status |-> "none",
                      exitCode |-> -1]
    /\ monitor = NoMonitor
    /\ truncated = NoTruncation

\* if (!existsSync(worktreeBasePath)): the worktree is initialised first
CheckWorktree ==
    /\ workflow.started
    /\ workflow.at = "worktree"
    /\ \E worktreeExists \in BOOLEAN :
          workflow' = [workflow EXCEPT
                          !.at = "construct",
                          !.next = IF worktreeExists
                                   THEN FirstPhase(workflow.kind) ELSE "init"]
    /\ UNCHANGED << request, maxRetries, retryDelays, attempt, pc, fs, last,
                    returned, calls, waits, onlyAgentErrors, template, run,
                    handed, monitor, truncated >>

\* a phase's request is constructed and executeTemplate is called with it:
\* a new output directory, the default maxRetries and retryDelays; the
\* update's request carries the status computed from the phases before it
BeginPhase ==
    /\ workflow.started
    /\ workflow.at = "construct"
    /\ workflow' = [workflow EXCEPT
                       !.at = "await",
                       !.phase = workflow.next,
                       !.invoked = Append(workflow.invoked, workflow.next),
                       !.status = IF workflow.next = "update"
                                  THEN UpdateStatus(workflow.workflowSuccess,
                                                    workflow.commitHash)
                                  ELSE @]
    /\ pc' = "template"
    /\ UNCHANGED << request, maxRetries, retryDelays, attempt, fs, last,
                    returned, calls, waits, onlyAgentErrors, template, run,
                    handed, monitor, truncated >>

\* lines 57-68 of the executor: Bun.spawn launches the wrapper
SpawnWrapper ==
    /\ workflow.started
    /\ pc = "execute"
    /\ pc' = "running"
    /\ workflow' = [workflow EXCEPT !.inFlight = workflow.inFlight + 1]
    /\ UNCHANGED << request, maxRetries, retryDelays, attempt, fs, last,
                    returned, calls, waits, onlyAgentErrors, template, run,
                    handed, monitor, truncated >>

\* await proc.exited: the wrapper has exited, the rest of the call follows
AwaitExitIn(envs) ==
    /\ workflow.started
    /\ pc = "running"
    /\ Call(Spawned(envs))
    /\ workflow' = [workflow EXCEPT !.inFlight = workflow.inFlight - 1]
    /\ UNCHANGED << template, run, handed, monitor, truncated >>

AwaitExit == AwaitExitIn(WorkflowEnvs)

\* the call fails before a wrapper is launched
CallFailsIn(envs) ==
    /\ workflow.started
    /\ pc = "execute"
    /\ Call(Unspawned(envs))
    /\ UNCHANGED << template, run, handed, workflow, monitor, truncated >>

CallFails == CallFailsIn(WorkflowEnvs)

\* the awaited call has settled: the rest of the phase's block, then the
\* next phase.  hashFound: getCurrentCommitHash returns a hash;
\* summaryWritable: the phase's summary file can be written.
EndPhase ==
    /\ workflow.started
    /\ workflow.at = "await"
    /\ Settled
    /\ \E hashFound \in BOOLEAN, summaryWritable \in BOOLEAN :
          LET phase == workflow.phase
              outcome == Outcome
              committing == phase \in { "build", "implement" }
              ok == outcome = "success"
              planPath ==
                  IF phase = "plan"
                  THEN ok /\ PlanPathOf(returned.output).present
                  ELSE workflow.planPath
              commitHash ==
                  IF committing THEN ok /\ hashFound ELSE workflow.commitHash
              success ==
                  CASE phase \in { "init", "update" } -> workflow.workflowSuccess
                    [] phase = "plan" -> ok /\ summaryWritable /\ planPath
                    [] committing -> ok /\ summaryWritable
              next == NextPhase(workflow.kind, phase, outcome, success, planPath)
          IN workflow' = [workflow EXCEPT
                             !.at = IF next \in { "exited", "crashed" }
                                    THEN "exited"
                                    ELSE IF next = "summary" THEN "summary"
                                    ELSE "construct",
                             !.next = next,
                             !.outcomes = Append(workflow.outcomes, outcome),
                             !.workflowSuccess = success,
                             !.commitHash = commitHash,
                             !.planPath = planPath,
                             !.exitCode = IF next \in { "exited", "crashed" }
                                          THEN 1 ELSE workflow.exitCode]
    /\ request' = request
    /\ maxRetries' = DefaultMaxRetries
    /\ retryDelays' = DefaultRetryDelays
    /\ attempt' = 0
    /\ pc' = "idle"
    /\ fs' = [file |-> NoFile, jsonFile |-> NoArray, finalObject |-> NoObject]
    /\ last' = NoCall
    /\ returned' = NoResponse
    /\ calls' = 0
    /\ waits' = << >>
    /\ onlyAgentErrors' = TRUE
    /\ template' = NoTemplate
    /\ UNCHANGED << run, handed, monitor, truncated >>

\* the workflow summary is written and the process exits with 0 or 1
WriteSummary ==
    /\ workflow.started
    /\ workflow.at = "summary"
    /\ \E summaryWritable \in BOOLEAN :
          workflow' = [workflow EXCEPT
                          !.at = "exited",
                          !.next = IF summaryWritable THEN "exited" ELSE "crashed",
                          !.exitCode = IF summaryWritable /\ workflow.workflowSuccess
                                       THEN 0 ELSE 1]
    /\ UNCHANGED << request, maxRetries, retryDelays, attempt, pc, fs, last,
                    returned, calls, waits, onlyAgentErrors, template, run,
                    handed, monitor, truncated >>

NextWorkflow ==
    \/ CheckWorktree \/ BeginPhase \/ ExecuteTemplate \/ Start \/ Sleep
    \/ SpawnWrapper \/ AwaitExit \/ CallFails \/ Check \/ EndPhase
    \/ WriteSummary

WorkflowSpec == InitWorkflow /\ [][NextWorkflow]_vars

\* the build-update script started with one model
InitBuildUpdate ==
    /\ InitWorkflow
    /\ workflow.kind = "build-update"
    /\ request.model = "sonnet"

\* one environment for each way a call ends: success, a failure that is not
\* retried, a failure that is retried, an exception
SettleEnvs ==
    { Env(TRUE, TRUE, TRUE, TRUE, 0, << JsonLine(Success) >>, TRUE, TRUE, TRUE),
      Env(TRUE, TRUE, TRUE, TRUE, 0,
          << JsonLine(ResultEvent("error_max_turns", "true", FailText)) >>,
          TRUE, TRUE, TRUE),
      Env(TRUE, TRUE, TRUE, TRUE, AgentTimedOut, << >>, TRUE, TRUE, TRUE),
      Env(FALSE, TRUE, TRUE, TRUE, 0, << >>, TRUE, TRUE, TRUE) }

AwaitExitSettle == AwaitExitIn(SettleEnvs)

CallFailsSettle == CallFailsIn(SettleEnvs)

NextBuildUpdate ==
    \/ CheckWorktree \/ BeginPhase \/ ExecuteTemplate \/ Start \/ Sleep
    \/ SpawnWrapper \/ AwaitExitSettle \/ CallFailsSettle \/ Check \/ EndPhase
    \/ WriteSummary

\* the script is one sequential async program: each step is taken once the
\* promise it awaits has settled, and the wrapper ends within its timeout
FairWorkflowSpec ==
    InitBuildUpdate /\ [][NextBuildUpdate]_vars /\ WF_vars(NextBuildUpdate)

(***************************************************************************)
(* The Notion task monitor: one sequential loop that fetches the eligible  *)
(* tasks, claims each of the first maxTasks of them and spawns a detached  *)
(* workflow process for it; the workflows run on their own.                *)
(***************************************************************************)
\* how many workflows a behaviour delegates, and how many ADW ids there are
MaxWorkflows == 3

\* makeAdwId(): the first 8 characters of a random UUID, any of which may
\* come again
AdwIds == 1..MaxWorkflows

UpperCase ==
    << "A","B","C","D","E","F","G","H","I","J","K","L","M","N","O","P","Q","R",
       "S","T","U","V","W","X","Y","Z" >>

LowerCase ==
    << "a","b","c","d","e","f","g","h","i","j","k","l","m","n","o","p","q","r",
       "s","t","u","v","w","x","y","z" >>

Digits == { "0","1","2","3","4","5","6","7","8","9" }

\* String.prototype.toLowerCase
ToLowerCase(s) ==
    [ i \in 1..Len(s) |->
        IF \E k \in 1..26 : UpperCase[k] = s[i]
        THEN LowerCase[CHOOSE k \in 1..26 : UpperCase[k] = s[i]]
        ELSE s[i] ]

NameChars == { LowerCase[k] : k \in 1..26 } \cup Digits \cup { "-" }

\* replace(/[^a-z0-9-]/g, "-")
ReplaceOthers(s) == [ i \in 1..Len(s) |-> IF s[i] \in NameChars THEN s[i] ELSE "-" ]

\* replace(/-+/g, "-")
RECURSIVE CollapseDashes(_)
CollapseDashes(s) ==
    IF Len(s) < 2 THEN s
    ELSE IF s[1] = "-" /\ s[2] = "-" THEN CollapseDashes(Tail(s))
    ELSE << s[1] >> \o CollapseDashes(Tail(s))

\* replace(/^-|-$/g, "")
StripDashes(s) ==
    LET t == IF s # << >> /\ s[1] = "-" THEN Tail(s) ELSE s
    IN IF t # << >> /\ t[Len(t)] = "-" THEN SubSeq(t, 1, Len(t) - 1) ELSE t

\* replace(/[^a-z0-9]+/g, "-")
ReplaceRuns(s) ==
    CollapseDashes([ i \in 1..Len(s) |->
                       IF s[i] \in NameChars \ { "-" } THEN s[i] ELSE "-" ])

\* generateWorktreeName: the task's suggestion, or its title and five random
\* characters
generateWorktreeName(task, random) ==
    IF task.worktree.present /\ task.worktree.text # << >>
    THEN Slice0(ReplaceOthers(ToLowerCase(task.worktree.text)), 20)
    ELSE StripDashes(Slice0(ReplaceRuns(ToLowerCase(task.title)), 15)
                     \o << "-" >> \o random)

\* the workflow script's own sanitising of --worktree-name
SanitizedWorktree(worktreeName) ==
    StripDashes(CollapseDashes(
        Slice0(ReplaceOthers(ToLowerCase(worktreeName)), 20)))

TreesDir == << "t","r","e","e","s","/" >>

\* join(process.cwd(), "trees", sanitizedWorktree): the directory the
\* workflow's build, plan and implement agents work in
WorktreeBasePath(worktreeName) == TreesDir \o SanitizedWorktree(worktreeName)

FetcherName ==
    << "n","o","t","i","o","n","-","t","a","s","k","-","f","e","t","c","h","e","r" >>

UpdaterName ==
    << "n","o","t","i","o","n","-","t","a","s","k","-","u","p","d","a","t","e","r" >>

BuilderPrefix == << "b","u","i","l","d","e","r","-" >>

NotionUpdaterPrefix ==
    << "n","o","t","i","o","n","-","u","p","d","a","t","e","r","-" >>

InitializerName ==
    << "w","o","r","k","t","r","e","e","-","i","n","i","t","i","a","l","i","z","e","r" >>

\* the agent_name of a workflow's invocation in a phase
AgentName(phase, worktreeName) ==
    IF phase = "init" THEN InitializerName
    ELSE (IF phase = "build" THEN BuilderPrefix ELSE NotionUpdaterPrefix)
             \o SanitizedWorktree(worktreeName)

\* tasks in the database: with a suggested worktree, with the same one in
\* other letters, with none
TaskFix == [title |-> << "F","i","x" >>, worktree |-> SomeText(<< "f","x" >>)]

TaskTest == [title |-> << "T","e","s","t" >>, worktree |-> SomeText(<< "F","x" >>)]

TaskAdd == [title |-> << "A","d","d" >>, worktree |-> NoText]

\* Math.random().toString(36).substring(2, 7)
RandomSuffixes == { << "k","3","x","9","q" >> }

\* what a fetch may return: no, one, two or three eligible tasks
TaskLists ==
    { << >>, << TaskFix >>, << TaskTest, TaskAdd >>, << TaskAdd, TaskFix, TaskTest >> }

\* --max-tasks values
MaxTasksValues == { 1, 2 }

NoInvocation == [active |-> FALSE]

\* activeAdwIds.has(adwId) is false: the id is kept, not regenerated
Fresh_Unchecked(adwId, active) == TRUE

Fresh(adwId, active) == adwId \notin active

\* if (!claimed) return: nothing is spawned for a task that was not claimed
Spawns_Unclaimed(claimed) == TRUE

Spawns(claimed) == claimed

\* tasks.slice(0, maxTasks)
TasksToProcess(tasks, maxTasks) == SubSeq(tasks, 1, IF maxTasks < Len(tasks) THEN maxTasks ELSE Len(tasks))

InitMonitor ==
    /\ request \in Requests
    /\ maxRetries = DefaultMaxRetries
    /\ retryDelays = DefaultRetryDelays
    /\ attempt = 0
    /\ pc = "monitor"
    /\ fs = [file |-> NoFile, jsonFile |-> NoArray, finalObject |-> NoObject]
    /\ last = NoCall
    /\ returned = NoResponse
    /\ calls = 0
    /\ waits = << >>
    /\ onlyAgentErrors = TRUE
    /\ template = NoTemplate
    /\ run = NoRun
    /\ handed = NoSpawn
    /\ workflow = NoWorkflow
    /\ \E maxTasks \in MaxTasksValues, dryRun \in BOOLEAN :
          monitor = [started |-> TRUE, maxTasks |-> maxTasks, dryRun |-> dryRun,
                     runOnce |-> FALSE, running |-> TRUE, at |-> "poll",
                     pending |-> << >>, invocation |-> NoInvocation,
                     adwId |-> 0, activeAdwIds |-> {}, workflows |-> EmptyBag,
                     claimed |-> "none"]
    /\ truncated = NoTruncation

MonitorOnly ==
    UNCHANGED << request, maxRetries, retryDelays, attempt, pc, fs, last,
                 returned, calls, waits, onlyAgentErrors, template, run,
                 handed, workflow, truncated >>

\* while (true): the loop does not look at running
FetchTasks_WhileTrue ==
    /\ monitor.started
    /\ monitor.at \in { "poll", "sleep" }
    /\ \E adwId \in AdwIds :
          monitor' = [monitor EXCEPT
                         !.at = "fetching",
                         !.invocation = [active |-> TRUE, adw_id |-> adwId,
                                         agent_name |-> FetcherName]]
    /\ MonitorOnly

\* getEligibleTasks: the fetcher agent is invoked under a new ADW id, at the
\* start and after a polling interval that ends with running still true
FetchTasks ==
    /\ monitor.started
    /\ \/ monitor.at = "poll"
       \/ monitor.at = "sleep" /\ monitor.running
    /\ \E adwId \in AdwIds :
          monitor' = [monitor EXCEPT
                         !.at = "fetching",
                         !.invocation = [active |-> TRUE, adw_id |-> adwId,
                                         agent_name |-> FetcherName]]
    /\ MonitorOnly

\* the fetch has returned (an error gives no tasks); the first maxTasks of
\* the tasks are kept
FetchReturns ==
    /\ monitor.started
    /\ monitor.at = "fetching"
    /\ \E tasks \in TaskLists :
          monitor' = [monitor EXCEPT
                         !.at = "delegate",
                         !.invocation = NoInvocation,
                         !.pending = TasksToProcess(tasks, monitor.maxTasks)]
    /\ MonitorOnly

\* delegateTask up to its await: an ADW id that is not active is drawn and
\* added to activeAdwIds, and the updater agent is invoked, under another
\* new id, to claim the task
ClaimTask ==
    /\ monitor.started
    /\ monitor.at = "delegate"
    /\ monitor.pending # << >>
    /\ ~monitor.dryRun
    /\ BagCardinality(monitor.workflows) < MaxWorkflows
    /\ \E adwId \in AdwIds, updaterId \in AdwIds :
          /\ Fresh(adwId, monitor.activeAdwIds)
          /\ monitor' = [monitor EXCEPT
                            !.at = "claiming",
                            !.adwId = adwId,
                            !.activeAdwIds = @ \cup { adwId },
                            !.claimed = "none",
                            !.invocation = [active |-> TRUE, adw_id |-> updaterId,
                                            agent_name |-> UpdaterName]]
    /\ MonitorOnly

\* delegateTask in dry-run mode: the ADW id is drawn and added to
\* activeAdwIds, and the function returns before the claim
DryRunTask ==
    /\ monitor.started
    /\ monitor.at = "delegate"
    /\ monitor.pending # << >>
    /\ monitor.dryRun
    /\ \E adwId \in AdwIds :
          /\ Fresh(adwId, monitor.activeAdwIds)
          /\ monitor' = [monitor EXCEPT
                            !.pending = Tail(@),
                            !.activeAdwIds = @ \cup { adwId }]
    /\ MonitorOnly

\* the claim has returned: the workflow is spawned detached, or the id is
\* dropped when the task could not be claimed
ClaimReturns ==
    /\ monitor.started
    /\ monitor.at = "claiming"
    /\ \E claimed \in BOOLEAN, random \in RandomSuffixes, worktreeExists \in BOOLEAN :
          LET task == Head(monitor.pending)
              worktreeName == generateWorktreeName(task, random)
          IN monitor' = [monitor EXCEPT
                            !.at = "delegate",
                            !.invocation = NoInvocation,
                            !.adwId = 0,
                            !.pending = Tail(@),
                            !.claimed = IF claimed THEN "yes" ELSE "no",
                            !.activeAdwIds =
                                IF claimed THEN @ ELSE @ \ { monitor.adwId },
                            !.workflows =
                                IF Spawns(claimed)
                                THEN @ (+) SetToBag({ [adw_id |-> monitor.adwId,
                                                       worktree |-> worktreeName,
                                                       phase |-> IF worktreeExists
                                                                 THEN "build"
                                                                 ELSE "init"] })
                                ELSE @]
    /\ MonitorOnly

\* every task of the cycle is delegated: processTasks returns, to the end of
\* the single run or to the polling interval of the loop
NextPoll ==
    /\ monitor.started
    /\ monitor.at = "delegate"
    /\ monitor.pending = << >>
    /\ monitor' = [monitor EXCEPT
                      !.at = IF monitor.runOnce THEN "complete" ELSE "sleep",
                      !.claimed = "none"]
    /\ MonitorOnly

\* a spawned workflow goes from the initialisation of its worktree to its
\* build phase, from there to its update phase, and from there to its exit;
\* no one is told of the exit
WorkflowAdvances ==
    /\ monitor.started
    /\ \E w \in BagToSet(monitor.workflows) :
          monitor' = [monitor EXCEPT
                         !.workflows =
                             IF w.phase \in { "init", "build" }
                             THEN (@ (-) SetToBag({ w }))
                                      (+) SetToBag({ [w EXCEPT !.phase =
                                              IF @ = "init" THEN "build" ELSE "update"] })
                             ELSE @ (-) SetToBag({ w })]
    /\ MonitorOnly

NextMonitor ==
    \/ FetchTasks \/ FetchReturns \/ ClaimTask \/ DryRunTask \/ ClaimReturns
    \/ NextPoll
    \/ WorkflowAdvances

MonitorSpec == InitMonitor /\ [][NextMonitor]_vars

(***************************************************************************)
(* The monitor and its signals: monitor() in either mode, with SIGINT or   *)
(* SIGTERM arriving while it awaits.  The workflows it spawns are left to  *)
(* run; a cycle starts only while ADW ids are left for each of its tasks.  *)
(***************************************************************************)

InitShutdown ==
    /\ request \in Requests
    /\ maxRetries = DefaultMaxRetries
    /\ retryDelays = DefaultRetryDelays
    /\ attempt = 0
    /\ pc = "signals"
    /\ fs = [file |-> NoFile, jsonFile |-> NoArray, finalObject |-> NoObject]
    /\ last = NoCall
    /\ returned = NoResponse
    /\ calls = 0
    /\ waits = << >>
    /\ onlyAgentErrors = TRUE
    /\ template = NoTemplate
    /\ run = NoRun
    /\ handed = NoSpawn
    /\ workflow = NoWorkflow
    /\ \E maxTasks \in MaxTasksValues, dryRun \in BOOLEAN, runOnce \in BOOLEAN :
          monitor = [started |-> TRUE, maxTasks |-> maxTasks, dryRun |-> dryRun,
                     runOnce |-> runOnce, running |-> TRUE, at |-> "poll",
                     pending |-> << >>, invocation |-> NoInvocation,
                     adwId |-> 0, activeAdwIds |-> {}, workflows |-> EmptyBag,
                     claimed |-> "none"]
    /\ truncated = NoTruncation

\* processTasks is called while an ADW id is left for each task it may
\* delegate
FetchTasksBounded ==
    /\ Cardinality(monitor.activeAdwIds) + monitor.maxTasks <= MaxWorkflows
    /\ FetchTasks

\* the handler of SIGINT or SIGTERM runs, which it can while the monitor
\* awaits: its fetch, a claim, the pause between delegations, the polling
\* interval
Signal ==
    /\ monitor.started
    /\ monitor.at \in { "fetching", "delegate", "claiming", "sleep" }
    /\ monitor.running
    /\ monitor' = [monitor EXCEPT !.running = FALSE]
    /\ MonitorOnly

\* running is false after processTasks or in the polling interval: the loop
\* is left and "Monitor stopped." is logged
Stop ==
    /\ monitor.started
    /\ monitor.at = "sleep"
    /\ ~monitor.running
    /\ monitor' = [monitor EXCEPT !.at = "stopped"]
    /\ MonitorOnly

MonitorStep ==
    \/ FetchTasksBounded \/ FetchReturns \/ ClaimTask \/ DryRunTask
    \/ ClaimReturns \/ NextPoll \/ Stop

NextShutdown == MonitorStep \/ Signal

ShutdownSpec == InitShutdown /\ [][NextShutdown]_vars /\ WF_vars(MonitorStep)

(***************************************************************************)
(* truncateOutput applied to a text, with the limits the sources use.      *)
(***************************************************************************)
\* maxLength: number = 500
DefaultMaxLength == 500

\* the length of a long text
LongLength == 2000

\* the limits truncateOutput is given: its default, and the executor's 800
MaxLengths == { DefaultMaxLength, ErrorTruncateLength }

\* a text of n characters: x everywhere but for ch at 0-based index at
Filled(n, at, ch) == [ i \in 1..n |-> IF i = at + 1 THEN ch ELSE "x" ]

\* where the one newline or space of a long text is, counted from the
\* truncation point maxLength - suffix.length
BreakOffsets == { -60, -50, -49, -21, -20, -19, -1, 0, 1, 20 }

\* a text of n characters with a newline at 0-based index nl and a space
\* at 0-based index sp
FilledBoth(n, nl, sp) ==
    [ i \in 1..n |-> IF i = nl + 1 THEN "\n" ELSE IF i = sp + 1 THEN " " ELSE "x" ]

\* where the newline and the space of a text with both are, counted from
\* the truncation point
BothOffsets ==
    { << -30, -5 >>, << -5, -30 >>, << -60, -5 >>, << -49, -19 >>, << -60, -30 >> }

\* plain texts longer than maxLength, with one newline or space near the
\* truncation point, with both, or with none
LongPlainTexts(maxLength) ==
    { Filled(n, maxLength - Len(DefaultSuffix) + off, ch) :
          n \in { maxLength + 1, LongLength }, off \in BreakOffsets,
          ch \in { "\n", " " } }
    \cup { FilledBoth(LongLength, maxLength - Len(DefaultSuffix) + off[1],
                      maxLength - Len(DefaultSuffix) + off[2]) :
               off \in BothOffsets }
    \cup { Filled(n, -1, "x") : n \in { maxLength + 1, LongLength } }

AssistantStreamText == SystemLineText \o << "\n" >> \o AssistantLineText

\* texts no longer than any limit: plain ones and event streams
ShortTexts ==
    { << >>, DoneText, Filled(DefaultMaxLength, 100, "\n"),
      RawStreamText, RawStreamNoText, AssistantStreamText }

InitTruncate ==
    /\ request \in Requests
    /\ maxRetries = DefaultMaxRetries
    /\ retryDelays = DefaultRetryDelays
    /\ attempt = 0
    /\ pc = "truncate"
    /\ fs = [file |-> NoFile, jsonFile |-> NoArray, finalObject |-> NoObject]
    /\ last = NoCall
    /\ returned = NoResponse
    /\ calls = 0
    /\ waits = << >>
    /\ onlyAgentErrors = TRUE
    /\ template = NoTemplate
    /\ run = NoRun
    /\ handed = NoSpawn
    /\ workflow = NoWorkflow
    /\ monitor = NoMonitor
    /\ \E maxLength \in MaxLengths :
          \E output \in ShortTexts \cup LongPlainTexts(maxLength) :
              truncated = [applied |-> FALSE, output |-> output,
                           maxLength |-> maxLength, result |-> << >>]

\* truncateOutput(output, maxLength) with the default suffix
Truncate ==
    /\ pc = "truncate"
    /\ truncated' = [truncated EXCEPT
                        !.applied = TRUE,
                        !.result = truncateOutput(truncated.output,
                                                  truncated.maxLength,
                                                  DefaultSuffix)]
    /\ pc' = "truncated"
    /\ UNCHANGED << request, maxRetries, retryDelays, attempt, fs, last,
                    returned, calls, waits, onlyAgentErrors, template, run,
                    handed, workflow, monitor >>

NextTruncate == Truncate

TruncateSpec == InitTruncate /\ [][NextTruncate]_vars

\* calls in which the wrapper exits 0 and leaves no result event to parse (an
\* empty, an eventless, an unparseable or an unreadable output file), with
\* the audit write succeeding or failing, and a call that succeeds
NoResultEnvs ==
    { Env(TRUE, TRUE, TRUE, TRUE, 0, out, TRUE, aw, TRUE) :
          out \in { << >>, << JsonLine(SystemEvent) >>,
                    << BadLine, JsonLine(Success) >>,
                    << JsonLine(Success), JsonLine(JsonNull) >> },
          aw \in BOOLEAN }
    \cup { Env(TRUE, TRUE, TRUE, TRUE, 0, << JsonLine(Success) >>, rd, TRUE, TRUE) :
               rd \in BOOLEAN }

ExecuteNoResult == ExecuteIn(NoResultEnvs)

NextNoResult == Start \/ Sleep \/ ExecuteNoResult \/ Check

\* the retry call over calls that end with exit code 0
NoResultSpec == Init /\ [][NextNoResult]_vars

(***************************************************************************)
(* The claims.                                                             *)
(***************************************************************************)
\* the latest executeClaudeCode call returned a response
Responded == calls >= 1 /\ ~last.threw

\* the latest call launched the wrapper and waited for it
WrapperExited == calls >= 1 /\ last.wrapperRan

\* the positions of the result events among the lines of the output file
ResultIndexes(lines) ==
    { i \in 1..Len(lines) :
          /\ lines[i].kind = "json"
          /\ lines[i].value.kind = "object"
          /\ lines[i].value.type = "result" }

\* the output file can be read and holds a result event
FileHasResult ==
    fs.file.exists /\ last.readable /\ ResultIndexes(fs.file.lines) # {}

\* the result event of the output file: the last one in it
FileResultEvent ==
    LET idx == ResultIndexes(fs.file.lines)
    IN fs.file.lines[CHOOSE i \in idx : \A j \in idx : j <= i].value

\* the values of the well-formed lines of the output file, in order
WellFormedValues(lines) ==
    LET json == SelectSeq(lines, LAMBDA l : l.kind = "json")
    IN [i \in 1..Len(json) |-> json[i].value]

\* C1: when the first k responses are failures with retry_code
\* claude_code_error and response k+1 has success = true, the retry call makes
\* no further call and returns that response (k+1 calls in all); and while
\* maxRetries >= k+1 it does not give up after k such failures.
C1_RetryReturnsFirstSuccess ==
    /\ (Responded /\ onlyAgentErrors /\ last.response.success)
           => /\ pc \in {"check", "done"}
              /\ pc = "done" => returned = last.response
    /\ (pc = "done" /\ onlyAgentErrors /\ ~returned.success
            /\ returned.retry_code = RetryCode.CLAUDE_CODE_ERROR)
           => ~(maxRetries >= calls + 1)

\* C1 witness: one claude_code_error failure, one wait, then the success
C1_Witness ==
    /\ pc = "done" /\ calls = 2 /\ maxRetries >= 2 /\ Len(waits) = 1
    /\ onlyAgentErrors /\ returned.success /\ returned = last.response

\* C2: after a call in which the wrapper exited with the invalid-arguments
\* code the retry call makes no further attempt and waits for no delay; it
\* returns that failure.
C2_InvalidArgumentsNotRetried ==
    (WrapperExited /\ last.exitCode = EXIT_INVALID_ARGS)
        => /\ pc \in {"check", "done"}
           /\ calls = 1 => waits = << >>
           /\ pc = "done" => returned = last.response

C4_FailureCodeImpliesFailure ==
    \A r \in {last.response, returned} :
        r.retry_code \in { RetryCode.CLAUDE_CODE_ERROR, RetryCode.TIMEOUT_ERROR,
                           RetryCode.EXECUTION_ERROR,
                           RetryCode.ERROR_DURING_EXECUTION }
            => ~r.success

\* C4 witness: the retry call returns a timeout after a retry
C4_Witness ==
    /\ pc = "done" /\ calls >= 2
    /\ returned.retry_code = RetryCode.TIMEOUT_ERROR /\ ~returned.success

\* C5: whenever the wrapper exited with code 124 the call returns the timeout
\* response: success = false, retry_code timeout_error, the fixed message.
C5_TimeoutWhateverTheFile ==
    (WrapperExited /\ last.exitCode = EXIT_TIMEOUT)
        => /\ ~last.threw
           /\ ~last.response.success
           /\ last.response.retry_code = RetryCode.TIMEOUT_ERROR
           /\ last.response.output = TimeoutMessage

\* C6: exit code 0 and a result event with subtype error_during_execution in
\* the output file give success = false and retry_code
\* error_during_execution, whatever the event's is_error flag.
C6_ErrorDuringExecutionOverrides ==
    (WrapperExited /\ last.exitCode = 0 /\ FileHasResult
         /\ FileResultEvent.subtype = "error_during_execution")
        => /\ ~last.threw
           /\ ~last.response.success
           /\ last.response.retry_code = RetryCode.ERROR_DURING_EXECUTION

\* C7: exit code 0 and a result event with is_error = false and a subtype
\* other than error_during_execution in the output file give success = true,
\* retry_code none, the event's whole result text and its session_id.
C7_SuccessReturnedInFull ==
    (WrapperExited /\ last.exitCode = 0 /\ FileHasResult
         /\ FileResultEvent.is_error = "false"
         /\ FileResultEvent.subtype # "error_during_execution")
        => /\ ~last.threw
           /\ last.response =
                  AgentPromptResponse(
                      IF FileResultEvent.result.present
                      THEN FileResultEvent.result.text ELSE << >>,
                      TRUE, FileResultEvent.session_id, RetryCode.NONE)

\* C8: for a readable output file with exactly one result event, the parser
\* returns that event and all well-formed events, whatever malformed lines
\* stand before or after it.
C8_ParserSkipsMalformedLines ==
    (WrapperExited /\ fs.file.exists /\ last.readable
         /\ Cardinality(ResultIndexes(fs.file.lines)) = 1)
        => /\ last.parsed.resultMessage = [found |-> TRUE, event |-> FileResultEvent]
           /\ last.parsed.messages = WellFormedValues(fs.file.lines)

\* C9: for a missing, unreadable or empty output file the parser returns no
\* messages and no result message, and does not throw.
C9_ParserEmptyOnNoFile ==
    (WrapperExited
         /\ (~fs.file.exists \/ ~last.readable \/ NonBlank(fs.file.lines) = << >>))
        => /\ ~last.parsed.threw
           /\ last.parsed.messages = << >>
           /\ ~last.parsed.resultMessage.found
           /\ last.raised # "parse"

\* C9 witness: the wrapper exited before creating the file
C9_Witness ==
    /\ WrapperExited /\ ~fs.file.exists /\ ~last.spawned
    /\ last.parsed = EmptyParse

\* C10: a call in which a step raised an exception returns success = false
\* with retry_code execution_error; neither the call nor the retry call
\* throws.
C10_NoExceptionEscapes ==
    /\ pc # "thrown"
    /\ (calls >= 1 /\ last.raised # "none")
           => /\ ~last.threw
              /\ ~last.response.success
              /\ last.response.retry_code = RetryCode.EXECUTION_ERROR

\* C11: a call in which the write of cc_raw_output.json or of
\* cc_final_object.json fails returns the response the same call returns,
\* for the same exit code and the same output file, when both writes succeed.
C11_AuditFailureKeepsResponse ==
    (WrapperExited /\ last.helpersFailed)
        => /\ ~last.threw
           /\ last.response = last.unfailed


\* C12: when a write of savePrompt fails, executeTemplate does not throw: it
\* goes on to the retry call and returns its response.
C12_PromptWriteFailureIgnored ==
    (template.called /\ template.raised \in {"promptDir", "promptFile"})
        => /\ pc # "thrown"
           /\ pc = "done" => returned = last.response


\* a failure with one of the four retryable codes
RetryableFailure(response) ==
    /\ ~response.success
    /\ response.retry_code \in { RetryCode.CLAUDE_CODE_ERROR,
                                 RetryCode.TIMEOUT_ERROR,
                                 RetryCode.EXECUTION_ERROR,
                                 RetryCode.ERROR_DURING_EXECUTION }

\* C13: the retry call never makes more than maxRetries + 1 calls; when it
\* returns a retryable failure (every attempt before it having been one, or
\* the loop would have ended there) it has made exactly maxRetries + 1 calls
\* and maxRetries waits and returns the last call's response unchanged; and
\* after the retryable failure of call maxRetries + 1 it returns, it neither
\* waits again nor falls out of the loop.
C13_RetriesExhausted ==
    /\ calls <= maxRetries + 1
    /\ (pc = "done" /\ RetryableFailure(returned))
           => /\ calls = maxRetries + 1
              /\ Len(waits) = maxRetries
              /\ returned = last.response
    /\ (Responded /\ RetryableFailure(last.response) /\ calls = maxRetries + 1)
           => pc \in {"check", "done"}

\* C13 witness: three retryable failures with maxRetries = 2, the third one
\* returned
C13_Witness ==
    /\ pc = "done" /\ maxRetries = 2 /\ calls = 3 /\ Len(waits) = 2
    /\ RetryableFailure(returned) /\ returned = last.response
    /\ returned.retry_code = RetryCode.EXECUTION_ERROR


\* the response ends the retry loop at line 165
EndsRetries(response) ==
    response.success \/ response.retry_code = RetryCode.NONE

\* C14: after a call whose response has success = true or retry_code none
\* (a failure with retry_code none included) the only step the retry call
\* takes is to return that response, with no further call and no further
\* wait; and once it has returned it takes no step at all.
C14_ReturnsAtOnce ==
    /\ [](Responded /\ EndsRetries(last.response) => pc \in {"check", "done"})
    /\ [][ /\ pc # "done"
           /\ (pc = "check" /\ EndsRetries(last.response))
                  => /\ pc' = "done"
                     /\ returned' = last.response
                     /\ calls' = calls
                     /\ waits' = waits ]_vars

\* C14 witness: a failure with retry_code none on the second call is
\* returned after two calls and one wait, with retries left
C14_Witness ==
    /\ pc = "done" /\ calls = 2 /\ Len(waits) = 1 /\ maxRetries = 2
    /\ ~returned.success /\ returned.retry_code = RetryCode.NONE
    /\ returned = last.response /\ last.exitCode = 0


\* C15: for every maxRetries >= 0 and every retryDelays list, the empty one
\* included, the retry call ends: it returns a response, unless an executor
\* call threw instead of giving a response; the throw of line 189 after the
\* loop is never reached.
C15_RetryTerminates ==
    /\ <>(pc = "done" \/ (pc = "thrown" /\ last.threw))
    /\ [](pc = "done" => returned = last.response /\ ~last.threw)
    /\ [](pc = "thrown" => calls >= 1 /\ last.threw)

\* C15 witness: an empty retryDelays list and maxRetries = 2; the call
\* returns after three calls and two waits of NaN seconds
C15_Witness ==
    /\ pc = "done" /\ maxRetries = 2 /\ calls = 3
    /\ retryDelays = << NaN, NaN >> /\ waits = << NaN, NaN >>
    /\ RetryableFailure(returned)


\* the list d of n or more delays the claim describes, for a list delays
\* with a last delay: delays itself, then last + 2, last + 4, ...
ExpectedDelays(delays, n) ==
    [i \in 1..(IF Len(delays) < n THEN n ELSE Len(delays)) |->
        IF i <= Len(delays) THEN delays[i]
        ELSE delays[Len(delays)] + 2 * (i - Len(delays))]

ValidRun ==
    run.nargs = 6 /\ run.model \in {"sonnet", "opus"} /\ run.dirExists

\* C17: a run with a model other than sonnet and opus, with a missing
\* working directory, or with fewer or more than six arguments exits with
\* code 2 and does not spawn the agent.
C17_InvalidArgumentsExitTwo ==
    (run.ran /\ ~ValidRun)
        => run.exitCode = EXIT_INVALID_ARGS /\ ~run.spawned

\* C18: a run with valid arguments that does not find the claude binary does
\* not spawn it and exits with a code other than 0, 1, 2 and 124.
C18_MissingBinaryHasOwnCode ==
    (run.ran /\ ValidRun /\ ~run.binaryFound)
        => /\ ~run.spawned
           /\ run.exitCode \notin { EXIT_SUCCESS, EXIT_CLAUDE_ERROR,
                                    EXIT_INVALID_ARGS, EXIT_TIMEOUT }

\* C19: a run that spawns the agent exits 124 exactly when the 300-second
\* limit expired, 0 exactly when the agent exited 0 within the limit, and 1
\* for every other exit status of the agent.
C19_TimeoutExactlyWhenExpired ==
    (run.ran /\ run.spawned)
        => /\ run.exitCode = EXIT_TIMEOUT <=> run.expired
           /\ run.exitCode = EXIT_SUCCESS <=> (~run.expired /\ run.status = 0)
           /\ (~run.expired /\ run.status # 0)
                  => run.exitCode = EXIT_CLAUDE_ERROR


\* the two ambient environments agree on every allow-listed variable
AgreeOnAllowList ==
    \A name \in EnvVars \cap AllowList :
        handed.ambient[1][name] = handed.ambient[2][name]

\* C20: when two ambient environments agree on the allow-listed variables,
\* the environments handed to the subprocess executeClaudeCode launches are
\* the same, and no variable outside the allow-list is set in them.
C20_OnlyAllowListReachesSubprocess ==
    handed.spawned =>
        /\ AgreeOnAllowList => handed.env[1] = handed.env[2]
        /\ \A k \in {1, 2} : \A name \in DOMAIN handed.env[k] :
               handed.env[k][name] # Absent => name \in AllowList

\* C21: within one workflow process at most one wrapper subprocess is in
\* flight; while the wrapper of attempt k is in flight the k earlier calls
\* have ended and their k backoff waits have elapsed; and while no
\* executeTemplate call is awaited (the next phase's request is being
\* constructed, or the script is past its phases) no wrapper is in flight
\* and every call made has settled.
C21_OneWrapperInFlight ==
    workflow.started =>
        /\ workflow.inFlight <= 1
        /\ (workflow.inFlight = 1) = (pc = "running")
        /\ pc = "running" => (calls = attempt /\ Len(waits) = attempt)
        /\ workflow.at = "await" =>
               Len(workflow.invoked) = Len(workflow.outcomes) + 1
        /\ workflow.at # "await" =>
               /\ workflow.inFlight = 0
               /\ Len(workflow.invoked) = Len(workflow.outcomes)

\* the wrapper of a retry is in flight in a workflow's second phase
C21_Witness ==
    /\ workflow.started
    /\ workflow.inFlight = 1
    /\ attempt >= 1
    /\ Len(waits) = attempt
    /\ Len(workflow.invoked) = 2
    /\ Len(workflow.outcomes) = 1

\* how many times phase is in the list of the phases invoked
TimesInvoked(phase) ==
    Cardinality({ i \in DOMAIN workflow.invoked : workflow.invoked[i] = phase })

\* the build-update script has called executeTemplate for /build
ReachedBuild ==
    /\ workflow.started
    /\ workflow.kind = "build-update"
    /\ TimesInvoked("build") >= 1

\* C28: in the build-update script the update invocation is never made more
\* than once, is made only when the /build call (all its attempts) has
\* settled with no wrapper left in flight, has been made exactly once when
\* the script is past its phases, and every run that reaches the build phase
\* makes it, whether /build succeeded, failed or threw.
C28_UpdateOnceAfterBuild ==
    /\ [](ReachedBuild =>
             /\ TimesInvoked("update") <= 1
             /\ TimesInvoked("update") = 1 =>
                    \E i \in DOMAIN workflow.outcomes :
                        /\ workflow.invoked[i] = "build"
                        /\ workflow.invoked[i + 1] = "update"
             /\ (workflow.phase = "build" /\ workflow.at = "await") =>
                    TimesInvoked("update") = 0
             /\ workflow.at \in { "summary", "exited" } =>
                    TimesInvoked("update") = 1)
    /\ (ReachedBuild ~> (TimesInvoked("update") = 1 /\ workflow.at = "exited"))

\* the /build call threw and the update was invoked once all the same
C28_Witness ==
    /\ ReachedBuild
    /\ workflow.at = "exited"
    /\ \E i \in DOMAIN workflow.outcomes :
          workflow.invoked[i] = "build" /\ workflow.outcomes[i] = "threw"
    /\ TimesInvoked("update") = 1

\* the spawned workflows that have not exited
RunningWorkflows == BagToSet(monitor.workflows)

\* the (adw_id, agent_name) pair of the invocation a running workflow has in
\* flight
InvocationOf(w) ==
    [adw_id |-> w.adw_id, agent_name |-> AgentName(w.phase, w.worktree)]

\* C22: any two invocations in flight at the same time (the monitor's own
\* fetch or claim, and the phase each running workflow is in) have different
\* (adw_id, agent_name) pairs, hence different output files.
C22_OutputPathsDisjoint ==
    monitor.started =>
        /\ \A w \in RunningWorkflows : CopiesIn(w, monitor.workflows) = 1
        /\ \A v \in RunningWorkflows, w \in RunningWorkflows :
               v # w => InvocationOf(v) # InvocationOf(w)
        /\ monitor.invocation.active =>
               \A w \in RunningWorkflows :
                   [adw_id |-> monitor.invocation.adw_id,
                    agent_name |-> monitor.invocation.agent_name]
                       # InvocationOf(w)

\* two workflows run the same phase under the same agent name while the
\* monitor's own invocation has drawn the ADW id of one of them
C22_Witness ==
    /\ monitor.started
    /\ monitor.invocation.active
    /\ \E v \in RunningWorkflows, w \in RunningWorkflows :
          /\ v # w
          /\ InvocationOf(v).agent_name = InvocationOf(w).agent_name
          /\ monitor.invocation.adw_id = v.adw_id

\* C23: any two workflows the monitor has spawned and that have not exited
\* work in different directories.
C23_WorkflowsInDifferentDirectories ==
    monitor.started =>
        /\ \A w \in RunningWorkflows : CopiesIn(w, monitor.workflows) = 1
        /\ \A v \in RunningWorkflows, w \in RunningWorkflows :
               v # w => WorktreeBasePath(v.worktree) # WorktreeBasePath(w.worktree)

\* C27: the monitor never has more than maxTasks delegated workflows running
\* at the same time.
C27_AtMostMaxTasksRunning ==
    monitor.started => BagCardinality(monitor.workflows) <= monitor.maxTasks

\* C24: within one executeClaudeCodeWithRetry call each executor call after
\* the first is passed a request whose output_file is not that of the call
\* before it.
C24_EachAttemptOwnOutputFile ==
    [][(calls' = calls + 1 /\ calls >= 1) =>
           last'.output_file # last.output_file]_vars

\* the text looks like an NDJSON event stream to truncateOutput
JsonlShaped(output) ==
    StartsWith(output, TypePrefix) /\ Includes(output, << "\n" >> \o TypePrefix)

\* String.prototype.endsWith
EndsWith(s, p) == Len(s) >= Len(p) /\ SubSeq(s, Len(s) - Len(p) + 1, Len(s)) = p

\* C25: truncateOutput returns every text whose length is at most the limit
\* unchanged, whatever the text is.
C25_ShortTextUnchanged ==
    (truncated.applied /\ Len(truncated.output) <= truncated.maxLength) =>
        truncated.result = truncated.output

ResultEvents(messages) ==
    { i \in DOMAIN messages :
          messages[i].kind = "object" /\ messages[i].type = "result" }

\* C29: the result event parseJSONLOutput returns is the last event of type
\* "result" of the parsed sequence, however many there are; it is never an
\* event of another type; and it is null when the sequence has no result
\* event.
C29_LastResultEventWins ==
    WrapperExited =>
        LET messages == last.parsed.messages
            results == ResultEvents(messages)
        IN /\ results = {} => ~last.parsed.resultMessage.found
           /\ results # {} =>
                  /\ last.parsed.resultMessage.found
                  /\ last.parsed.resultMessage.event.type = "result"
                  /\ \E i \in results :
                        /\ \A j \in results : j <= i
                        /\ last.parsed.resultMessage.event = messages[i]

\* two result events were parsed and the later, different one is returned
C29_Witness ==
    /\ WrapperExited
    /\ Cardinality(ResultEvents(last.parsed.messages)) = 2
    /\ \E i \in ResultEvents(last.parsed.messages) :
          last.parsed.messages[i] # last.parsed.resultMessage.event
    /\ last.parsed.resultMessage.event
           = last.parsed.messages[Len(last.parsed.messages)]

\* C30: a response for a wrapper exit code other than 0 and 124 has
\* retry_code CLAUDE_CODE_ERROR, and when the wrapper's standard-error text
\* is not empty its output is that text (cut to 800 characters), not the
\* result event's text.
C30_StderrPreferred ==
    (Responded /\ WrapperExited /\ last.exitCode \notin { 0, 124 }) =>
        /\ last.response.retry_code = RetryCode.CLAUDE_CODE_ERROR
        /\ ~last.response.success
        /\ last.stderr # << >> =>
               last.response.output
                   = truncateOutput(last.stderr, ErrorTruncateLength, DefaultSuffix)

\* the 0-based indexes, above 0, of the character ch of output that lie at
\* the position point or fewer than window characters before it
BreakPoints(output, ch, point, window) ==
    { i \in 1..(Len(output) - 1) :
          output[i + 1] = ch /\ i <= point /\ i > point - window }

\* where a long plain text is cut: at its last newline within 50 characters
\* before point, else at its last space within 20 characters before point,
\* else at fallback
ExpectedCut(output, point, fallback) ==
    LET newlines == BreakPoints(output, "\n", point, NewlineLookback)
        spaces == BreakPoints(output, " ", point, SpaceLookback)
    IN IF newlines # {} THEN CHOOSE i \in newlines : \A j \in newlines : j <= i
       ELSE IF spaces # {} THEN CHOOSE i \in spaces : \A j \in spaces : j <= i
       ELSE fallback

\* truncateOutput was applied to a plain text longer than the limit
TruncatedLongPlain ==
    /\ truncated.applied
    /\ ~JsonlShaped(truncated.output)
    /\ Len(truncated.output) > truncated.maxLength

C32_SessionIdFromResultEvent ==
    Responded =>
        /\ last.response.session_id # Absent =>
               /\ WrapperExited
               /\ last.parsed.resultMessage.found
               /\ last.response.session_id
                      = last.parsed.resultMessage.event.session_id
        /\ last.response.retry_code
               \in { RetryCode.TIMEOUT_ERROR, RetryCode.EXECUTION_ERROR } =>
               last.response.session_id = Absent

\* a failure response for exit code 1 carries the session_id of the result
\* event parsed in its call
C32_Witness ==
    /\ Responded
    /\ last.exitCode = 1
    /\ last.parsed.resultMessage.found
    /\ last.response.retry_code = RetryCode.CLAUDE_CODE_ERROR
    /\ last.response.session_id # Absent
    /\ last.response.session_id = last.parsed.resultMessage.event.session_id

\* the latest call's wrapper exited 0 and its parse found no result event
ExitZeroNoResult ==
    /\ Responded
    /\ WrapperExited
    /\ last.exitCode = 0
    /\ ~last.parsed.resultMessage.found

\* C33: when the wrapper exits 0 and no result event is parsed, the response
\* has success = false and retry_code CLAUDE_CODE_ERROR, and the retry call
\* does not return it while attempts are left.
C33_ExitZeroNoResultIsAgentError ==
    ExitZeroNoResult =>
        /\ ~last.response.success
        /\ last.response.retry_code = RetryCode.CLAUDE_CODE_ERROR
        /\ (pc = "check" /\ attempt < maxRetries) =>
               ~ShouldReturn(last.response, attempt, maxRetries)

\* the latest call's wrapper exited 0 and its parse found a result event
\* that is no error (is_error false or not there) and whose subtype is not
\* error_during_execution
CallSucceeded ==
    /\ WrapperExited
    /\ last.exitCode = 0
    /\ last.parsed.resultMessage.found
    /\ last.parsed.resultMessage.event.is_error # "true"
    /\ last.parsed.resultMessage.event.subtype # "error_during_execution"

\* C34: a call returns success = true only if its wrapper exited 0 and the
\* result event it parsed was no error and had a subtype other than
\* error_during_execution; and the retry call returns success = true only
\* if the last call it made was such a call.
C34_SuccessOnlyFromCleanResult ==
    /\ (Responded /\ last.response.success) => CallSucceeded
    /\ (pc = "done" /\ returned.success) =>
           (returned = last.response /\ CallSucceeded)

\* the retry call has returned success after a failed first attempt
C34_Witness ==
    /\ pc = "done"
    /\ returned.success
    /\ calls >= 2
    /\ CallSucceeded

\* C35: a call whose wrapper exits before it redirects the agent's output to
\* the file (invalid arguments, binary not found) is classified on no result
\* event and returns no session_id: what an earlier attempt left in the file
\* is not used.
C35_NoEventsOfEarlierAttempt ==
    (Responded /\ WrapperExited /\ ~last.spawned) =>
        /\ ~last.parsed.resultMessage.found
        /\ last.response.session_id = Absent


\* the monitor's claim of a task (its update to "In progress") is in flight
ClaimInFlight(m) ==
    m.invocation.active /\ m.invocation.agent_name = UpdaterName

\* C36: a workflow is spawned only by the step in which the claim of the task
\* returns, and only when it returned success; when the claim fails no
\* workflow is spawned and the task's ADW id leaves activeAdwIds; in dry-run
\* mode no claim is issued and no workflow is spawned.
C36_SpawnOnlyAfterClaim ==
    [][/\ (BagCardinality(monitor'.workflows) > BagCardinality(monitor.workflows)) =>
              /\ monitor.at = "claiming"
              /\ ClaimInFlight(monitor)
              /\ monitor'.claimed = "yes"
              /\ monitor'.workflows (-) monitor.workflows \in
                     { SetToBag({ [adw_id |-> monitor.adwId, worktree |-> wt, phase |-> ph] }) :
                           wt \in { generateWorktreeName(task, random) :
                                        task \in { Head(monitor.pending) },
                                        random \in RandomSuffixes },
                           ph \in { "init", "build" } }
       /\ (monitor.at = "claiming" /\ monitor'.claimed = "no") =>
              /\ monitor'.workflows = monitor.workflows
              /\ monitor.adwId \notin monitor'.activeAdwIds
       /\ monitor.dryRun =>
              /\ monitor'.workflows = monitor.workflows
              /\ ~ClaimInFlight(monitor')
              /\ monitor'.claimed = "none"]_vars

\* a claim has succeeded and the workflow of the task is running under the
\* ADW id the claim was made with, while another task of the cycle waits
C36_Witness ==
    /\ monitor.started
    /\ ~monitor.dryRun
    /\ monitor.at = "delegate"
    /\ monitor.claimed = "yes"
    /\ monitor.pending # << >>
    /\ BagCardinality(monitor.workflows) = 1


\* the step starts a polling cycle: the fetcher agent is invoked
StartsCycle == monitor.at # "fetching" /\ monitor'.at = "fetching"

WorkflowExited == workflow.started /\ workflow.at = "exited"

\* C38: a workflow script that has exited did so with code 0 exactly when the
\* status it sent to the tracker was Done, and with code 1 exactly when the
\* status it sent was Failed.
C38_ExitCodeAgreesWithStatus ==
    WorkflowExited =>
        /\ (workflow.exitCode = 0) = (workflow.status = "Done")
        /\ (workflow.exitCode = 1) = (workflow.status = "Failed")

\* C39: a workflow script that has exited has invoked the status update of
\* its task.
C39_NoExitWithoutUpdate ==
    WorkflowExited => TimesInvoked("update") >= 1


\* the plan-implement-update script has had its planning call settle
PlanSettled ==
    /\ workflow.started
    /\ workflow.kind = "plan-implement-update"
    /\ \E i \in DOMAIN workflow.outcomes : workflow.invoked[i] = "plan"

\* how the planning call settled
PlanOutcome ==
    workflow.outcomes[CHOOSE i \in DOMAIN workflow.outcomes : workflow.invoked[i] = "plan"]

\* C40: in the plan-implement-update script /implement is invoked only after
\* a planning call that returned success and gave a plan path, and right
\* after it; when the planning call failed, threw or gave no plan path,
\* /implement is not invoked and the status given to the update is Failed.
C40_ImplementOnlyWithPlan ==
    /\ (workflow.started /\ workflow.kind = "plan-implement-update"
           /\ TimesInvoked("implement") >= 1) =>
           /\ PlanSettled
           /\ PlanOutcome = "success"
           /\ workflow.planPath
           /\ TimesInvoked("implement") = 1
           /\ \E i \in DOMAIN workflow.outcomes :
                  workflow.invoked[i] = "plan" /\ workflow.invoked[i + 1] = "implement"
    /\ (PlanSettled /\ ~(PlanOutcome = "success" /\ workflow.planPath)) =>
           /\ TimesInvoked("implement") = 0
           /\ workflow.status # "Done"
           /\ TimesInvoked("update") >= 1 => workflow.status = "Failed"
           /\ workflow.at \in { "summary", "exited" } => TimesInvoked("update") = 1

\* the planning call returned success without a plan path, and the update
\* was invoked with Failed and no /implement before it
C40_Witness ==
    /\ PlanSettled
    /\ PlanOutcome = "success"
    /\ ~workflow.planPath
    /\ workflow.invoked = << "plan", "update" >>
    /\ workflow.status = "Failed"

====
